---- MODULE Spec2Model ----
(***************************************************************************)
(* Verification model of the Django applications of this repository.       *)
(*                                                                         *)
(*   Spec      social_media_api/posts: like_post, unlike_post and          *)
(*             PostViewSet.create, requests handled one at a time.         *)
(*   SpecRace  the same like/unlike views with each query against the      *)
(*             store as a separate step of a worker, so that two requests  *)
(*             interleave.                                                 *)
(*   SpecBooks advanced-api-project/api: the Author and Book write         *)
(*             endpoints with their permission classes and BookSerializer. *)
(*                                                                         *)
(* The relational store is modelled by one variable per table.  Tables     *)
(* whose rows may repeat are sequences of rows in insertion order.         *)
(***************************************************************************)
EXTENDS Integers, Sequences, FiniteSets, TLC

\* ---------------------------------------------------------------- bounds
MaxRequests == 6
MaxPosts == 2
MaxComments == 2
MaxAuthors == 1
MaxBooks == 1
MaxYearTicks == 1
MaxShelf == 2
MaxParams == 1
\* the year of the first request; the model is the same for any other
FirstYear == 2025

\* ------------------------------------------------------- users, requests
Users == {"user1", "user2"}
Anonymous == "AnonymousUser"
Requesters == Users \cup {Anonymous}

\* primary keys a URL can name: the ids of posts that may exist and one
\* id beyond them, so that a lookup can miss
PostPks == 1..(MaxPosts + 1)
CommentPks == 1..(MaxComments + 1)

\* content of the body of a create request, and of an update request
NewContents == {"draft"}
Contents == NewContents \cup {"edited"}

VARIABLES
    posts,          \* Post table: set of rows [id, author, content, likes]
    comments,       \* Comment table: set of rows [id, post, author, content]
    nextCommentId,  \* AutoField sequence of the Comment table
    nextPostId,     \* AutoField sequence of the Post table
    likes,          \* Like table: sequence of rows [user, post]
    notifications,  \* Notification table: sequence of rows
    likeUnique,     \* whether the Like table carries a unique (user, post) index
    authors,        \* Author table: set of rows [id, name]
    nextAuthorId,   \* AutoField sequence of the Author table
    books,          \* Book table: set of rows [id, title, publication_year, author]
    nextBookId,     \* AutoField sequence of the Book table
    currentYear,    \* datetime.now().year
    pc,             \* SpecRace: position of each worker in its view
    local,          \* SpecRace: the view's local variables of each worker
    request,        \* the request being answered
    response,       \* the response to it
    before,         \* the tables as they were when the request arrived
    nreq            \* number of requests received so far

commentVars == <<comments, nextCommentId>>
socialVars ==
    <<posts, nextPostId, likes, notifications, likeUnique, commentVars>>
raceVars == <<pc, local>>
bookVars == <<authors, nextAuthorId, books, nextBookId, currentYear>>
httpVars == <<request, response, before, nreq>>
vars == <<socialVars, raceVars, bookVars, httpVars>>

Workers == {"w1", "w2"}

\* ------------------------------------------------------------ responses
HTTP_200_OK == 200
HTTP_201_CREATED == 201
HTTP_204_NO_CONTENT == 204
HTTP_400_BAD_REQUEST == 400
HTTP_404_NOT_FOUND == 404
HTTP_500_INTERNAL_SERVER_ERROR == 500

\* NotAuthenticated is rendered as 401 when the first authentication class
\* supplies a WWW-Authenticate header and as 403 otherwise; the settings
\* module deciding this is not part of the sources, so both are possible.
NotAuthenticatedStatus == {401, 403}

Is4xx(status) == status >= 400 /\ status <= 499

\* errors: the <<field, code>> pairs a 400 response reports
\* (serializer.errors)
Response(status) == [status |-> status, errors |-> {}]
ValidationError(errors) ==
    [status |-> HTTP_400_BAD_REQUEST, errors |-> errors]

NoRequest == [view |-> "none", method |-> "NONE", user |-> Anonymous, pk |-> 0]
Request(view, method, user, pk) ==
    [view |-> view, method |-> method, user |-> user, pk |-> pk]

\* ----------------------------------------------------------- permissions
IsAuthenticatedAlways(user, method) == TRUE
IsAuthenticated(user, method) == user # Anonymous

\* permission_classes = []: no permission is checked
NoPermission(user, method) == TRUE

SAFE_METHODS == {"GET", "HEAD", "OPTIONS"}
IsAuthenticatedOrReadOnly_NoReadOnly(user, method) == user # Anonymous
IsAuthenticatedOrReadOnly(user, method) ==
    method \in SAFE_METHODS \/ user # Anonymous

\* ------------------------------------------------------------ Post table
PostIdsOf(tbl) == {p.id : p \in tbl}
PostByPk(tbl, pk) == CHOOSE p \in tbl : p.id = pk

\* ------------------------------------------------------------ Like table
LikeRow(user, post) == [user |-> user, post |-> post]

RECURSIVE CountRows(_, _)
CountRows(tbl, row) ==
    IF tbl = <<>> THEN 0
    ELSE (IF Head(tbl) = row THEN 1 ELSE 0) + CountRows(Tail(tbl), row)

\* Like.objects.get(user=, post=): "DoesNotExist", "found" or
\* "MultipleObjectsReturned"
Like_get(tbl, user, post) ==
    LET n == CountRows(tbl, LikeRow(user, post)) IN
    IF n = 0 THEN "DoesNotExist"
    ELSE IF n = 1 THEN "found" ELSE "MultipleObjectsReturned"

\* Like.objects.create(user=, post=): the INSERT fails with IntegrityError
\* when the table has a unique index and the row is already there
Like_create(tbl, unique, user, post) ==
    IF unique /\ CountRows(tbl, LikeRow(user, post)) > 0
    THEN [table |-> tbl, error |-> "IntegrityError"]
    ELSE [table |-> Append(tbl, LikeRow(user, post)), error |-> "none"]

\* Like.objects.get_or_create(user=, post=) run without interleaving
get_or_create_AlwaysCreates(tbl, unique, user, post) ==
    [table |-> Append(tbl, LikeRow(user, post)), created |-> TRUE,
     error |-> "none"]
get_or_create_CreatedAlways(tbl, unique, user, post) ==
    IF CountRows(tbl, LikeRow(user, post)) > 0
    THEN [table |-> tbl, created |-> TRUE, error |-> "none"]
    ELSE [table |-> Append(tbl, LikeRow(user, post)), created |-> TRUE,
          error |-> "none"]
get_or_create(tbl, unique, user, post) ==
    LET found == Like_get(tbl, user, post) IN
    IF found = "found"
    THEN [table |-> tbl, created |-> FALSE, error |-> "none"]
    ELSE IF found = "MultipleObjectsReturned"
    THEN [table |-> tbl, created |-> FALSE, error |-> found]
    ELSE LET ins == Like_create(tbl, unique, user, post) IN
         IF ins.error = "none"
         THEN [table |-> ins.table, created |-> TRUE, error |-> "none"]
         ELSE [table |-> tbl, created |-> FALSE, error |-> "none"]

\* Like.objects.filter(user=, post=).delete()
filter_delete_ByPost(tbl, user, post) ==
    SelectSeq(tbl, LAMBDA row : row.post # post)
filter_delete(tbl, user, post) ==
    SelectSeq(tbl, LAMBDA row : row # LikeRow(user, post))

\* ---------------------------------------------------- Notification table
NewNotification_ToActor(post, user) ==
    [recipient |-> user, actor |-> user, verb |-> "liked your post",
     target |-> post.id]
NewNotification(post, user) ==
    [recipient |-> post.author, actor |-> user, verb |-> "liked your post",
     target |-> post.id]

\* the condition of like_post under which a notification is written
ShouldNotify_SelfLike(created, post, user) == created
ShouldNotify_Always(created, post, user) == post.author # user
ShouldNotify(created, post, user) == created /\ post.author # user

\* number of notifications about user liking the post with this pk
RECURSIVE CountNotifications(_, _, _)
CountNotifications(tbl, user, pk) ==
    IF tbl = <<>> THEN 0
    ELSE (IF Head(tbl).actor = user /\ Head(tbl).target = pk THEN 1 ELSE 0)
         + CountNotifications(Tail(tbl), user, pk)

\* ------------------------------------------------------------------ Init
\* the local variables of a worker that runs no view
Idle == [view |-> "none", user |-> Anonymous, pk |-> 0, created |-> FALSE]

Snapshot ==
    [posts |-> posts, likes |-> likes, notifications |-> notifications,
     comments |-> comments]

Init ==
    /\ posts = {}
    /\ nextPostId = 1
    /\ likes = <<>>
    /\ notifications = <<>>
    /\ likeUnique \in BOOLEAN
    /\ comments = {}
    /\ nextCommentId = 1
    /\ authors = {}
    /\ nextAuthorId = 1
    /\ books = {}
    /\ nextBookId = 1
    /\ currentYear = FirstYear
    /\ pc = [w \in Workers |-> "idle"]
    /\ local = [w \in Workers |-> Idle]
    /\ request = NoRequest
    /\ response = Response(0)
    /\ before = Snapshot
    /\ nreq = 0

Receive(view, method, user, pk) ==
    /\ nreq < MaxRequests
    /\ nreq' = nreq + 1
    /\ request' = Request(view, method, user, pk)
    /\ before' = Snapshot

\* ------------------------------------------------- sequential view steps
\* Post.likes_count and Post.is_liked_by read the many-to-many field
\* Post.likes (the users of the rows of its own join table)
likes_count(post) == Cardinality(post.likes)
is_liked_by(post, user) == user \in post.likes

\* PostViewSet.create with perform_create: author is the requesting user;
\* no user is related to the new post through Post.likes
\* perform_create of PostViewSet and of CommentViewSet:
\* serializer.save(author=self.request.user) stores the validated data of
\* the body with the keyword arguments laid over them
perform_create_KeepsBodyAuthor(validated_data, user) == validated_data
perform_create(validated_data, user) ==
    [k \in DOMAIN validated_data \cup {"author"} |->
        IF k = "author" THEN user ELSE validated_data[k]]

\* the body carries a content and an author; the serializer is taken to
\* accept both
PostViewSet_create(user, content, author) ==
    /\ nreq < MaxRequests
    /\ nreq' = nreq + 1
    /\ request' = [view |-> "PostViewSet", method |-> "POST", user |-> user,
                   pk |-> 0,
                   data |-> [content |-> content, author |-> author]]
    /\ before' = Snapshot
    /\ IF ~IsAuthenticatedOrReadOnly(user, "POST")
       THEN /\ \E s \in NotAuthenticatedStatus : response' = Response(s)
            /\ UNCHANGED <<posts, nextPostId>>
       ELSE /\ nextPostId <= MaxPosts
            /\ LET saved == perform_create(request'.data, user) IN
               posts' = posts \cup
                    {[id |-> nextPostId, author |-> saved.author,
                      content |-> saved.content, likes |-> {}]}
            /\ nextPostId' = nextPostId + 1
            /\ response' = Response(HTTP_201_CREATED)
    /\ UNCHANGED <<likes, notifications, likeUnique, raceVars>>
    /\ UNCHANGED <<bookVars, commentVars>>

like_post(user, pk) ==
    /\ Receive("like_post", "POST", user, pk)
    /\ IF ~IsAuthenticated(user, "POST")
       THEN /\ \E s \in NotAuthenticatedStatus : response' = Response(s)
            /\ UNCHANGED <<likes, notifications>>
       ELSE IF pk \notin PostIdsOf(posts)
       THEN /\ response' = Response(HTTP_404_NOT_FOUND)
            /\ UNCHANGED <<likes, notifications>>
       ELSE LET post == PostByPk(posts, pk)
                r == get_or_create(likes, likeUnique, user, pk)
            IN  IF r.error # "none"
                THEN /\ response' = Response(HTTP_500_INTERNAL_SERVER_ERROR)
                     /\ UNCHANGED <<likes, notifications>>
                ELSE /\ likes' = r.table
                     /\ notifications' =
                            IF ShouldNotify(r.created, post, user)
                            THEN Append(notifications,
                                        NewNotification(post, user))
                            ELSE notifications
                     /\ response' = Response(HTTP_200_OK)
    /\ UNCHANGED <<posts, nextPostId, likeUnique, raceVars>>
    /\ UNCHANGED <<bookVars, commentVars>>

unlike_post_GetThenDelete(user, pk) ==
    /\ Receive("unlike_post", "POST", user, pk)
    /\ IF ~IsAuthenticated(user, "POST")
       THEN /\ \E s \in NotAuthenticatedStatus : response' = Response(s)
            /\ UNCHANGED likes
       ELSE IF pk \notin PostIdsOf(posts)
       THEN /\ response' = Response(HTTP_404_NOT_FOUND)
            /\ UNCHANGED likes
       ELSE IF Like_get(likes, user, pk) # "found"
       THEN /\ response' = Response(HTTP_500_INTERNAL_SERVER_ERROR)
            /\ UNCHANGED likes
       ELSE /\ likes' = filter_delete(likes, user, pk)
            /\ response' = Response(HTTP_200_OK)
    /\ UNCHANGED <<posts, nextPostId, notifications, likeUnique, raceVars>>
    /\ UNCHANGED <<bookVars, commentVars>>

unlike_post(user, pk) ==
    /\ Receive("unlike_post", "POST", user, pk)
    /\ IF ~IsAuthenticated(user, "POST")
       THEN /\ \E s \in NotAuthenticatedStatus : response' = Response(s)
            /\ UNCHANGED likes
       ELSE IF pk \notin PostIdsOf(posts)
       THEN /\ response' = Response(HTTP_404_NOT_FOUND)
            /\ UNCHANGED likes
       ELSE /\ likes' = filter_delete(likes, user, pk)
            /\ response' = Response(HTTP_200_OK)
    /\ UNCHANGED <<posts, nextPostId, notifications, likeUnique, raceVars>>
    /\ UNCHANGED <<bookVars, commentVars>>

CreatePost ==
    \E user \in Requesters, content \in NewContents, author \in Users :
        PostViewSet_create(user, content, author)
LikePost == \E user \in Requesters, pk \in PostPks : like_post(user, pk)
UnlikePost == \E user \in Requesters, pk \in PostPks : unlike_post(user, pk)

Next == CreatePost \/ LikePost \/ UnlikePost

Spec == Init /\ [][Next]_vars

\* ------------------------------------- PostViewSet and CommentViewSet
\* on_delete=models.CASCADE of Comment.post, and of the Like rows of a post
CascadeComments(tbl, postPk) == {c \in tbl : c.post # postPk}
CascadeLikes(tbl, postPk) == SelectSeq(tbl, LAMBDA l : l.post # postPk)

\* ModelViewSet.update: permission, get_object, serializer.save()
PostViewSet_update(user, pk, method, content) ==
    /\ Receive("PostViewSet", method, user, pk)
    /\ IF ~IsAuthenticatedOrReadOnly(user, method)
       THEN /\ \E s \in NotAuthenticatedStatus : response' = Response(s)
            /\ UNCHANGED posts
       ELSE IF pk \notin PostIdsOf(posts)
       THEN /\ response' = Response(HTTP_404_NOT_FOUND)
            /\ UNCHANGED posts
       ELSE LET post == PostByPk(posts, pk) IN
            /\ posts' = (posts \ {post}) \cup
                            {[post EXCEPT !.content = content]}
            /\ response' = Response(HTTP_200_OK)
    /\ UNCHANGED <<nextPostId, likes, notifications, likeUnique,
                   commentVars, raceVars, bookVars>>

\* ModelViewSet.destroy: permission, get_object, instance.delete()
PostViewSet_destroy(user, pk) ==
    /\ Receive("PostViewSet", "DELETE", user, pk)
    /\ IF ~IsAuthenticatedOrReadOnly(user, "DELETE")
       THEN /\ \E s \in NotAuthenticatedStatus : response' = Response(s)
            /\ UNCHANGED <<posts, comments, likes>>
       ELSE IF pk \notin PostIdsOf(posts)
       THEN /\ response' = Response(HTTP_404_NOT_FOUND)
            /\ UNCHANGED <<posts, comments, likes>>
       ELSE /\ posts' = posts \ {PostByPk(posts, pk)}
            /\ comments' = CascadeComments(comments, pk)
            /\ likes' = CascadeLikes(likes, pk)
            /\ response' = Response(HTTP_204_NO_CONTENT)
    /\ UNCHANGED <<nextPostId, notifications, likeUnique, nextCommentId,
                   raceVars, bookVars>>

\* CommentViewSet.create with perform_create: author is the requesting
\* user; the body names the post
CommentViewSet_create(user, postPk, content, author) ==
    /\ nreq < MaxRequests
    /\ nreq' = nreq + 1
    /\ request' = [view |-> "CommentViewSet", method |-> "POST",
                   user |-> user, pk |-> 0,
                   data |-> [post |-> postPk, content |-> content,
                             author |-> author]]
    /\ before' = Snapshot
    /\ IF ~IsAuthenticatedOrReadOnly(user, "POST")
       THEN /\ \E s \in NotAuthenticatedStatus : response' = Response(s)
            /\ UNCHANGED commentVars
       ELSE IF postPk \notin PostIdsOf(posts)
       THEN /\ response' = ValidationError({<<"post", "does_not_exist">>})
            /\ UNCHANGED commentVars
       ELSE /\ nextCommentId <= MaxComments
            /\ LET saved == perform_create(request'.data, user) IN
               comments' = comments \cup
                    {[id |-> nextCommentId, post |-> saved.post,
                      author |-> saved.author, content |-> saved.content]}
            /\ nextCommentId' = nextCommentId + 1
            /\ response' = Response(HTTP_201_CREATED)
    /\ UNCHANGED <<posts, nextPostId, likes, notifications, likeUnique,
                   raceVars, bookVars>>

CommentViewSet_update(user, pk, method, content) ==
    /\ Receive("CommentViewSet", method, user, pk)
    /\ IF ~IsAuthenticatedOrReadOnly(user, method)
       THEN /\ \E s \in NotAuthenticatedStatus : response' = Response(s)
            /\ UNCHANGED comments
       ELSE IF pk \notin PostIdsOf(comments)
       THEN /\ response' = Response(HTTP_404_NOT_FOUND)
            /\ UNCHANGED comments
       ELSE LET comment == PostByPk(comments, pk) IN
            /\ comments' = (comments \ {comment}) \cup
                               {[comment EXCEPT !.content = content]}
            /\ response' = Response(HTTP_200_OK)
    /\ UNCHANGED <<posts, nextPostId, likes, notifications, likeUnique,
                   nextCommentId, raceVars, bookVars>>

CommentViewSet_destroy(user, pk) ==
    /\ Receive("CommentViewSet", "DELETE", user, pk)
    /\ IF ~IsAuthenticatedOrReadOnly(user, "DELETE")
       THEN /\ \E s \in NotAuthenticatedStatus : response' = Response(s)
            /\ UNCHANGED comments
       ELSE IF pk \notin PostIdsOf(comments)
       THEN /\ response' = Response(HTTP_404_NOT_FOUND)
            /\ UNCHANGED comments
       ELSE /\ comments' = comments \ {PostByPk(comments, pk)}
            /\ response' = Response(HTTP_204_NO_CONTENT)
    /\ UNCHANGED <<posts, nextPostId, likes, notifications, likeUnique,
                   nextCommentId, raceVars, bookVars>>

UpdatePost ==
    \E user \in Requesters, pk \in PostPks, method \in {"PUT", "PATCH"},
       content \in Contents :
        PostViewSet_update(user, pk, method, content)
DestroyPost ==
    \E user \in Requesters, pk \in PostPks : PostViewSet_destroy(user, pk)
CreateComment ==
    \E user \in Requesters, postPk \in PostPks, content \in NewContents,
       author \in Users :
        CommentViewSet_create(user, postPk, content, author)
UpdateComment ==
    \E user \in Requesters, pk \in CommentPks, method \in {"PUT", "PATCH"},
       content \in Contents :
        CommentViewSet_update(user, pk, method, content)
DestroyComment ==
    \E user \in Requesters, pk \in CommentPks :
        CommentViewSet_destroy(user, pk)

NextPosts ==
    \/ CreatePost
    \/ UpdatePost
    \/ DestroyPost
    \/ CreateComment
    \/ UpdateComment
    \/ DestroyComment

SpecPosts == Init /\ [][NextPosts]_vars

\* ================================================================= text
\* A str is the sequence of its characters.  Alphabet lists the characters
\* of the model in code point order.
Alphabet ==
    <<" ", "-", ".", "0", "1", "2", "3", "4", "5", "6", "7", "8", "9",
      "A", "B", "C", "D", "E", "F", "G", "H", "I", "J", "K", "L", "M",
      "N", "O", "P", "Q", "R", "S", "T", "U", "V", "W", "X", "Y", "Z",
      "_", "a", "b", "c", "d", "e", "f", "g", "h", "i", "j", "k", "l", "m",
      "n", "o", "p", "q", "r", "s", "t", "u", "v", "w", "x", "y", "z">>

\* the position of a character in that order
ord ==
    [c \in {Alphabet[i] : i \in 1..Len(Alphabet)} |->
        CHOOSE i \in 1..Len(Alphabet) : Alphabet[i] = c]

\* str.lower()
lower(s) ==
    [i \in 1..Len(s) |->
        IF ord[s[i]] >= ord["A"] /\ ord[s[i]] <= ord["Z"]
        THEN Alphabet[ord[s[i]] + (ord["a"] - ord["A"])]
        ELSE s[i]]

\* str.strip(): from the first to the last character that is no blank
strip(s) ==
    LET kept == {i \in 1..Len(s) : s[i] # " "}
        first == CHOOSE i \in kept : \A j \in kept : i <= j
        last == CHOOSE i \in kept : \A j \in kept : i >= j
    IN  IF kept = {} THEN <<>> ELSE SubSeq(s, first, last)

\* value[:n]
Prefix(s, n) == SubSeq(s, 1, IF Len(s) < n THEN Len(s) ELSE n)

\* int(value) of a str of the alphabet: ok is FALSE where int raises
\* ValueError, and value is the number the digits denote
int(value) ==
    LET s == strip(value)
        isdigit(c) == ord[c] >= ord["0"] /\ ord[c] <= ord["9"]
        RECURSIVE DigitsValue(_)
        DigitsValue(d) ==
            IF d = <<>>
            THEN 0
            ELSE 10 * DigitsValue(SubSeq(d, 1, Len(d) - 1))
                    + (ord[d[Len(d)]] - ord["0"])
    IN  IF s # <<>> /\ \A i \in 1..Len(s) : isdigit(s[i])
        THEN [ok |-> TRUE, value |-> DigitsValue(s)]
        ELSE [ok |-> FALSE, value |-> 0]

\* the lookup icontains of the ORM
icontains(field, value) ==
    \E i \in 1..(Len(field) - Len(value) + 1) :
        SubSeq(lower(field), i, i + Len(value) - 1) = lower(value)

\* str.split() on blanks
RECURSIVE split(_)
split(s) ==
    LET t == strip(s)
        n == IF \E i \in 1..Len(t) : t[i] = " "
             THEN (CHOOSE i \in 1..Len(t) :
                      t[i] = " " /\ \A j \in 1..(i - 1) : t[j] # " ") - 1
             ELSE Len(t)
    IN  IF t = <<>>
        THEN <<>>
        ELSE <<SubSeq(t, 1, n)>> \o split(SubSeq(t, n + 1, Len(t)))

\* code point order of two strs
RECURSIVE StrLess(_, _)
StrLess(a, b) ==
    IF b = <<>> THEN FALSE
    ELSE IF a = <<>> THEN TRUE
    ELSE IF Head(a) # Head(b) THEN ord[Head(a)] < ord[Head(b)]
    ELSE StrLess(Tail(a), Tail(b))

\* ============================================= advanced-api-project/api
\* A request to the API is first in flight (request, with no response yet)
\* and is then answered by the one step of its view, which reads it and
\* writes the tables and the response; the response is then sent and the
\* next request can arrive.

\* a text field, and a numeric field, that a request body does not carry
Absent == <<"<absent>">>
AbsentNumber == -1
\* stands for a publication_year that does not parse as an integer ("abc")
Malformed == -2
\* the routes books/update/ and books/delete/ pass no pk to the view
NoPk == 0

\* the API's clients: any authenticated user is treated alike
Clients == {"user1", Anonymous}

\* field values of request bodies; <<>> is a blank text field.  The years are
\* those the clock passes through, so that each is in the future, current
\* or past at some time.  The pks are those of the rows that may exist: each
\* names no row before its row is created and after it is deleted.  Those
\* of the authors are the two of the fixture and those of created authors.
Names == {<<>>, <<"O", "r", "w", "e", "l", "l">>}
Titles == {<<>>, <<"1", "9", "8", "4">>}
Years == FirstYear..(FirstYear + MaxYearTicks)
AuthorPks == {1, 2} \cup 1..MaxAuthors
BookPks == 1..MaxBooks

AuthorData == [name : Names \cup {Absent}]
BookData ==
    [title : Titles \cup {Absent},
     publication_year : Years \cup {AbsentNumber, Malformed},
     author : AuthorPks \cup {AbsentNumber}]
NoData == [name |-> Absent]

BookRequest(view, method, user, pk, data) ==
    [view |-> view, method |-> method, user |-> user, pk |-> pk,
     data |-> data]

UpdateMethods == {"PUT", "PATCH"}

\* the write requests of the URL configuration
AuthorRequests ==
    {BookRequest("AuthorListCreateView", "POST", user, NoPk, data) :
        user \in Clients, data \in AuthorData}
    \cup
    {BookRequest("AuthorDetailView", method, user, pk, data) :
        method \in UpdateMethods, user \in Clients, pk \in AuthorPks,
        data \in AuthorData}
    \cup
    {BookRequest("AuthorDetailView", "DELETE", user, pk, NoData) :
        user \in Clients, pk \in AuthorPks}
BookRequests ==
    {BookRequest(view, "POST", user, NoPk, data) :
        view \in {"BookCreateView", "BookListCreateView"},
        user \in Clients, data \in BookData}
    \cup
    {BookRequest("BookUpdateView", method, user, pk, data) :
        method \in UpdateMethods, user \in Clients,
        pk \in BookPks \cup {NoPk}, data \in BookData}
    \cup
    {BookRequest("BookDetailUpdateDeleteView", method, user, pk, data) :
        method \in UpdateMethods, user \in Clients, pk \in BookPks,
        data \in BookData}
    \cup
    {BookRequest("BookDeleteView", "DELETE", user, pk, NoData) :
        user \in Clients, pk \in BookPks \cup {NoPk}}
    \cup
    {BookRequest("BookDetailUpdateDeleteView", "DELETE", user, pk, NoData) :
        user \in Clients, pk \in BookPks}

\* --------------------------------------------- query parameters of a list
\* request.query_params: a function from the names the URL carries to their
\* values.  A request carries at most MaxParams of them.
NoParams == [k \in {} |-> <<>>]
Has(params, key) == key \in DOMAIN params

YearParams == {"year_from", "year_to"}
NumberFilters ==
    {"publication_year", "publication_year_min", "publication_year_max"}
ParamNames ==
    YearParams \cup NumberFilters \cup
    {"popular_only", "decade", "has_recent_publication", "search",
     "ordering"}

\* the values of a parameter: well formed, malformed and empty ones
ParamValues(key) ==
    CASE key = "year_from" ->
            {<<"2", "0", "1", "0">>, <<"2", "0", "1", "9">>, <<"a", "b", "c">>}
      [] key = "year_to" ->
            {<<"2", "0", "1", "0">>, <<"2", "0", "1", "9">>, <<"a", "b", "c">>}
      [] key \in NumberFilters -> {<<"2", "0", "1", "5">>, <<"a", "b", "c">>}
      [] key = "popular_only" -> {<<"t", "r", "u", "e">>}
      [] key = "decade" ->
            {<<>>, <<"2", "0", "0", "0", "s">>,
             <<"2", "0", "1", "0", "s">>,
             <<"1", "9", "3", "0", "s">>, <<"a", "b", "c", "d">>}
      [] key = "has_recent_publication" ->
            {<<>>, <<"t", "r", "u", "e">>, <<"F", "a", "l", "s", "e">>,
             <<"m", "a", "y", "b", "e">>}
      [] key = "search" ->
            {<<>>, <<"a">>, <<"b">>, <<"C">>, <<"d">>, <<"b", " ", "C">>}
      [] key = "ordering" ->
            {<<"t", "i", "t", "l", "e">>,
             <<"-", "t", "i", "t", "l", "e">>,
             <<"p", "u", "b", "l", "i", "c", "a", "t", "i", "o", "n", "_", "y", "e", "a", "r">>,
             <<"-", "p", "u", "b", "l", "i", "c", "a", "t", "i", "o", "n", "_", "y", "e", "a", "r">>,
             <<"a", "u", "t", "h", "o", "r", "_", "_", "n", "a", "m", "e">>,
             <<"-", "a", "u", "t", "h", "o", "r", "_", "_", "n", "a", "m", "e">>,
             <<"r", "a", "t", "i", "n", "g">>}

\* the requests: those of at most MaxParams parameters, and those of the
\* two legacy parameters together
QueryParams ==
    LET AllParamValues == UNION {ParamValues(key) : key \in ParamNames}
    IN  UNION {{params \in [keys -> AllParamValues] :
                   \A key \in keys : params[key] \in ParamValues(key)} :
               keys \in {K \in SUBSET ParamNames :
                            Cardinality(K) <= MaxParams}
                        \cup {YearParams}}

ListRequest(view, user, params) ==
    [view |-> view, method |-> "GET", user |-> user, pk |-> NoPk,
     data |-> NoData, params |-> params]

\* the body of a 200 response to a list request: the serialized books, and
\* the calls of the filter methods made on the way
ListResponse(results, calls) ==
    [status |-> HTTP_200_OK, errors |-> {}, results |-> results,
     calls |-> calls]

IdsOf(tbl) == {row.id : row \in tbl}
RowByPk(tbl, pk) == CHOOSE row \in tbl : row.id = pk

\* the read requests of the URL configuration, without query parameters
ReadRequests ==
    {BookRequest(view, "GET", user, NoPk, NoData) :
        view \in {"api_overview", "AuthorListCreateView",
                  "BookListCreateView"},
        user \in Clients}
    \cup
    {ListRequest("BookListView", user, NoParams) : user \in Clients}
    \cup
    {BookRequest("AuthorDetailView", "GET", user, pk, NoData) :
        user \in Clients, pk \in AuthorPks}
    \cup
    {BookRequest(view, "GET", user, pk, NoData) :
        view \in {"BookDetailView", "BookDetailUpdateDeleteView"},
        user \in Clients, pk \in BookPks}

\* ------------------------------------------- BookListView.get_queryset
AuthorName(authorTbl, book) == RowByPk(authorTbl, book.author).name

\* the legacy parameters year_from and year_to: int(), ValueError ignored
get_queryset_YearToExclusive(bookTbl, params) ==
    LET YearBound(key) ==
            IF Has(params, key)
            THEN int(params[key])
            ELSE [ok |-> FALSE, value |-> 0]
        year_from == YearBound("year_from")
        year_to == YearBound("year_to")
        q1 == IF year_from.ok
              THEN {b \in bookTbl : b.publication_year >= year_from.value}
              ELSE bookTbl
    IN  IF year_to.ok
        THEN {b \in q1 : b.publication_year < year_to.value}
        ELSE q1
get_queryset(bookTbl, params) ==
    LET YearBound(key) ==
            IF Has(params, key)
            THEN int(params[key])
            ELSE [ok |-> FALSE, value |-> 0]
        year_from == YearBound("year_from")
        year_to == YearBound("year_to")
        q1 == IF year_from.ok
              THEN {b \in bookTbl : b.publication_year >= year_from.value}
              ELSE bookTbl
        q2 == IF year_to.ok
              THEN {b \in q1 : b.publication_year <= year_to.value}
              ELSE q1
        popular_only ==
            /\ Has(params, "popular_only")
            /\ lower(params["popular_only"]) = <<"t", "r", "u", "e">>
    IN  IF popular_only
        THEN {b \in q2 :
                Cardinality({o \in bookTbl : o.author = b.author}) > 1}
        ELSE q2

\* ------------------------------------------------------------ BookFilter
\* The cleaned value of a filter's field: empty is TRUE for the values the
\* filter skips (None and ''), valid is FALSE where the field raises
\* ValidationError.
Empty == [empty |-> TRUE, valid |-> TRUE]
Invalid == [empty |-> FALSE, valid |-> FALSE]
Cleaned(value) == [empty |-> FALSE, valid |-> TRUE, value |-> value]

\* NumberFilter: a DecimalField
NumberFilter_clean(params, key) ==
    IF ~Has(params, key) \/ strip(params[key]) = <<>>
    THEN Empty
    ELSE IF int(params[key]).ok
    THEN Cleaned(int(params[key]).value)
    ELSE Invalid

\* the choices of the decade filter
DecadeChoices ==
    {<<"1", "9", "4", "0", "s">>, <<"1", "9", "5", "0", "s">>,
     <<"1", "9", "6", "0", "s">>, <<"1", "9", "7", "0", "s">>,
     <<"1", "9", "8", "0", "s">>, <<"1", "9", "9", "0", "s">>,
     <<"2", "0", "0", "0", "s">>, <<"2", "0", "1", "0", "s">>,
     <<"2", "0", "2", "0", "s">>}

\* ChoiceFilter: a ChoiceField
ChoiceFilter_clean_AnyValue(params, key, choices) ==
    IF ~Has(params, key) \/ params[key] = <<>>
    THEN Empty
    ELSE Cleaned(params[key])
ChoiceFilter_clean(params, key, choices) ==
    IF ~Has(params, key) \/ params[key] = <<>>
    THEN Empty
    ELSE IF params[key] \in choices
    THEN Cleaned(params[key])
    ELSE Invalid

\* BooleanFilter: a NullBooleanField with the BooleanWidget
BooleanFilter_clean_EmptyIsFalse(params, key) ==
    IF ~Has(params, key)
    THEN Empty
    ELSE Cleaned(lower(params[key]) \in {<<"1">>, <<"t", "r", "u", "e">>})
BooleanFilter_clean(params, key) ==
    IF ~Has(params, key)
    THEN Empty
    ELSE IF lower(params[key]) \in {<<"1">>, <<"t", "r", "u", "e">>}
    THEN Cleaned(TRUE)
    ELSE IF lower(params[key]) \in {<<"0">>, <<"f", "a", "l", "s", "e">>}
    THEN Cleaned(FALSE)
    ELSE Empty

\* CharFilter: a CharField, which strips the value
CharFilter_clean(params, key) ==
    IF ~Has(params, key) \/ strip(params[key]) = <<>>
    THEN Empty
    ELSE Cleaned(strip(params[key]))

\* form.cleaned_data of the filterset
cleaned_data(params) ==
    [publication_year |-> NumberFilter_clean(params, "publication_year"),
     publication_year_min |->
         NumberFilter_clean(params, "publication_year_min"),
     publication_year_max |->
         NumberFilter_clean(params, "publication_year_max"),
     decade |-> ChoiceFilter_clean(params, "decade", DecadeChoices),
     has_recent_publication |->
         BooleanFilter_clean(params, "has_recent_publication"),
     search |-> CharFilter_clean(params, "search")]

\* filterset.errors
BookFilter_errors(params) ==
    {<<key, "invalid">> :
        key \in {k \in DOMAIN cleaned_data(params) :
                    ~cleaned_data(params)[k].valid}}

\* BookFilter.filter_by_decade; int() of the first four characters raises
\* ValueError where they are no number
filter_by_decade_raises(value) ==
    ~value.empty /\ ~int(Prefix(value.value, 4)).ok
filter_by_decade_EndsAtNextDecade(queryset, value) ==
    IF value.empty
    THEN queryset
    ELSE LET decade_start == int(Prefix(value.value, 4)).value
             decade_end == decade_start + 10
         IN  {b \in queryset : /\ b.publication_year >= decade_start
                               /\ b.publication_year <= decade_end}
filter_by_decade(queryset, value) ==
    IF value.empty
    THEN queryset
    ELSE LET decade_start == int(Prefix(value.value, 4)).value
             decade_end == decade_start + 9
         IN  {b \in queryset : /\ b.publication_year >= decade_start
                               /\ b.publication_year <= decade_end}

\* BookFilter.filter_recent_books
filter_recent_books_After(queryset, value, current_year) ==
    IF value.empty
    THEN queryset
    ELSE IF value.value
    THEN {b \in queryset : b.publication_year > current_year - 10}
    ELSE {b \in queryset : b.publication_year < current_year - 10}
filter_recent_books(queryset, value, current_year) ==
    IF value.empty
    THEN queryset
    ELSE IF value.value
    THEN {b \in queryset : b.publication_year >= current_year - 10}
    ELSE {b \in queryset : b.publication_year < current_year - 10}

\* BookFilter.filter_search
filter_search_TitleOnly(queryset, value, authorTbl) ==
    IF value.empty
    THEN queryset
    ELSE {b \in queryset : icontains(b.title, value.value)}
filter_search(queryset, value, authorTbl) ==
    IF value.empty
    THEN queryset
    ELSE {b \in queryset :
            \/ icontains(b.title, value.value)
            \/ icontains(AuthorName(authorTbl, b), value.value)}

\* a filter with a lookup skips the values in EMPTY_VALUES
Filter_filter(queryset, value, lookup_expr) ==
    IF value.empty
    THEN queryset
    ELSE {b \in queryset :
            CASE lookup_expr = "exact" -> b.publication_year = value.value
              [] lookup_expr = "gte" -> b.publication_year >= value.value
              [] lookup_expr = "lte" -> b.publication_year <= value.value}

\* the filter methods that FilterMethod calls: those of the filters whose
\* value is not in EMPTY_VALUES
MethodCalls(params) ==
    LET MethodOf(key) ==
            CASE key = "decade" -> "filter_by_decade"
              [] key = "has_recent_publication" -> "filter_recent_books"
              [] key = "search" -> "filter_search"
    IN  {<<MethodOf(key), cleaned_data(params)[key].value>> :
            key \in {k \in {"decade", "has_recent_publication", "search"} :
                        ~cleaned_data(params)[k].empty}}

\* FilterSet.filter_queryset: every filter in turn
BookFilter_filter_queryset(queryset, authorTbl, params, current_year) ==
    LET data == cleaned_data(params)
        q1 == Filter_filter(queryset, data.publication_year, "exact")
        q2 == Filter_filter(q1, data.publication_year_min, "gte")
        q3 == Filter_filter(q2, data.publication_year_max, "lte")
        q4 == filter_by_decade(q3, data.decade)
        q5 == filter_recent_books(q4, data.has_recent_publication,
                                  current_year)
    IN  filter_search(q5, data.search, authorTbl)

\* ---------------------------------------------------------- SearchFilter
\* the terms of the search parameter; every term has to match one of
\* search_fields: title, author__name, =title, ^title
SearchFilter(queryset, authorTbl, params) ==
    LET terms ==
            IF Has(params, "search") THEN split(params["search"]) ELSE <<>>
        iexact(field, value) == lower(field) = lower(value)
        istartswith(field, value) ==
            /\ Len(value) <= Len(field)
            /\ SubSeq(lower(field), 1, Len(value)) = lower(value)
    IN  {b \in queryset :
            \A i \in 1..Len(terms) :
                \/ icontains(b.title, terms[i])
                \/ icontains(AuthorName(authorTbl, b), terms[i])
                \/ iexact(b.title, terms[i])
                \/ istartswith(b.title, terms[i])}

\* -------------------------------------------------------- OrderingFilter
Field_title == <<"t", "i", "t", "l", "e">>
Field_publication_year ==
    <<"p", "u", "b", "l", "i", "c", "a", "t", "i", "o", "n", "_", "y", "e", "a", "r">>
Field_author__name ==
    <<"a", "u", "t", "h", "o", "r", "_", "_", "n", "a", "m", "e">>
Field_id == <<"i", "d">>
ordering_fields ==
    {Field_title, Field_publication_year, Field_author__name, Field_id}

\* BookListView.ordering
ordering_OldestFirst == <<Field_publication_year, Field_title>>
ordering == <<<<"-">> \o Field_publication_year, Field_title>>

\* the field of a term of an ordering: the term without its "-"
TermField(term) == IF term # <<>> /\ Head(term) = "-" THEN Tail(term) ELSE term

\* OrderingFilter.get_ordering: the term of the ordering parameter if its
\* field is one of ordering_fields, the view's ordering otherwise
get_ordering_IgnoresParameter(params) == ordering
get_ordering(params) ==
    IF /\ Has(params, "ordering")
       /\ TermField(strip(params["ordering"])) \in ordering_fields
    THEN <<strip(params["ordering"])>>
    ELSE ordering

\* ORDER BY terms: a sorts before b by the first term that tells them
\* apart, a term with "-" being descending
RECURSIVE OrderLess(_, _, _, _)
OrderLess(a, b, terms, authorTbl) ==
    LET FieldLess(x, y, field) ==
            CASE field = Field_title -> StrLess(x.title, y.title)
              [] field = Field_publication_year ->
                    x.publication_year < y.publication_year
              [] field = Field_author__name ->
                    StrLess(AuthorName(authorTbl, x), AuthorName(authorTbl, y))
              [] field = Field_id -> x.id < y.id
        TermLess(x, y, term) ==
            IF term # <<>> /\ Head(term) = "-"
            THEN FieldLess(y, x, TermField(term))
            ELSE FieldLess(x, y, TermField(term))
    IN  IF terms = <<>> THEN FALSE
        ELSE IF TermLess(a, b, Head(terms)) THEN TRUE
        ELSE IF TermLess(b, a, Head(terms)) THEN FALSE
        ELSE OrderLess(a, b, Tail(terms), authorTbl)

\* the orders in which the database may return the rows of the ordered
\* queryset: rows that no term tells apart come in any order
OrderingFilter(queryset, authorTbl, params) ==
    LET Orders ==
            {rows \in [1..Cardinality(queryset) -> queryset] :
                \A b \in queryset :
                    \E i \in 1..Cardinality(queryset) : rows[i] = b}
    IN  {rows \in Orders :
            \A i \in 1..Len(rows) : \A j \in (i + 1)..Len(rows) :
                ~OrderLess(rows[j], rows[i], get_ordering(params), authorTbl)}

\* BookSerializer.validate_publication_year: TRUE when the value is returned,
\* FALSE when ValidationError is raised
validate_publication_year_OffByOne(value, current_year) ==
    ~(value > current_year + 1)
validate_publication_year(value, current_year) == ~(value > current_year)

\* the error of a field, if any, as the pair of the field and the error's
\* code
FieldError(field, failed, code) == IF failed THEN {<<field, code>>} ELSE {}
\* a required field is missing, which a partial update allows
Required(field, value, absent, partial) ==
    FieldError(field, value = absent /\ ~partial, "required")

\* serializer.errors of BookSerializer(data=data, partial=partial)
BookSerializer_errors(data, partial, authorTbl, current_year) ==
    Required("title", data.title, Absent, partial)
    \cup FieldError("title", data.title = <<>>, "blank")
    \cup Required("publication_year", data.publication_year, AbsentNumber,
                  partial)
    \cup FieldError("publication_year", data.publication_year = Malformed,
                    "invalid")
    \cup FieldError("publication_year",
            /\ data.publication_year \notin {AbsentNumber, Malformed}
            /\ ~validate_publication_year(data.publication_year,
                                          current_year),
            "future")
    \cup Required("author", data.author, AbsentNumber, partial)
    \cup FieldError("author",
            /\ data.author # AbsentNumber
            /\ data.author \notin IdsOf(authorTbl),
            "does_not_exist")

\* serializer.errors of AuthorSerializer(data=data, partial=partial)
AuthorSerializer_errors(data, partial) ==
    Required("name", data.name, Absent, partial)
    \cup FieldError("name", data.name = <<>>, "blank")

\* serializer.save() on an instance: the fields the body carries replace
\* the instance's
Updated_Overwrites(value, absent, old) == value
Updated(value, absent, old) == IF value = absent THEN old ELSE value
BookSerializer_update(instance, data) ==
    [id |-> instance.id,
     title |-> Updated(data.title, Absent, instance.title),
     publication_year |-> Updated(data.publication_year, AbsentNumber,
                                  instance.publication_year),
     author |-> Updated(data.author, AbsentNumber, instance.author)]
AuthorSerializer_update(instance, data) ==
    [id |-> instance.id, name |-> Updated(data.name, Absent, instance.name)]

\* AuthorSerializer.to_representation: the nested books of the author, in
\* the order of Book.Meta, and books_count, the length of that list
AuthorSerializer_to_representation_CountsAllBooks(instance, bookTbl) ==
    [id |-> instance.id, name |-> instance.name,
     books |-> <<>>, books_count |-> Cardinality(bookTbl)]
AuthorSerializer_to_representation(instance, bookTbl) ==
    LET related == {b \in bookTbl : b.author = instance.id}
        n == Cardinality(related)
        list == CHOOSE rows \in [1..n -> related] :
                    /\ \A b \in related : \E i \in 1..n : rows[i] = b
                    /\ \A i \in 1..n : \A j \in (i + 1)..n :
                            ~OrderLess(rows[j], rows[i], ordering, {instance})
        representation ==
            [id |-> instance.id, name |-> instance.name, books |-> list]
    IN  [id |-> representation.id, name |-> representation.name,
         books |-> representation.books,
         books_count |-> Len(representation.books)]

\* on_delete=models.CASCADE of Book.author
CascadeBooks_KeepsBooks(bookTbl, authorPk) == bookTbl
CascadeBooks(bookTbl, authorPk) == {b \in bookTbl : b.author # authorPk}

\* a request is in flight: it has arrived and has no response yet
InFlight == request # NoRequest /\ response.status = 0

\* a request arrives
ReceiveBookRequest ==
    /\ request = NoRequest
    /\ request' \in AuthorRequests \cup BookRequests \cup ReadRequests
    /\ response' = Response(0)
    /\ UNCHANGED <<before, nreq, bookVars, socialVars, raceVars>>

\* the view and handler the request in flight is routed to
Routed(view, methods) ==
    /\ InFlight
    /\ request.view = view
    /\ request.method \in methods

\* the step of a view ends with its response
Respond(r) ==
    /\ response' = r
    /\ UNCHANGED request
    /\ UNCHANGED <<before, nreq>>

\* the response is sent to the client, which ends the request
SendResponse ==
    /\ request # NoRequest
    /\ response.status # 0
    /\ request' = NoRequest
    /\ response' = Response(0)
    /\ UNCHANGED <<before, nreq, bookVars, socialVars, raceVars>>

NotAuthenticated ==
    \E s \in NotAuthenticatedStatus : Respond(Response(s))

\* ---------------------------------------------------------------- authors
AuthorListCreateView_post ==
    /\ Routed("AuthorListCreateView", {"POST"})
    /\ IF ~IsAuthenticatedOrReadOnly(request.user, request.method)
       THEN NotAuthenticated /\ UNCHANGED <<authors, nextAuthorId>>
       ELSE LET errors == AuthorSerializer_errors(request.data, FALSE) IN
            IF errors # {}
            THEN /\ Respond(ValidationError(errors))
                 /\ UNCHANGED <<authors, nextAuthorId>>
            ELSE /\ nextAuthorId <= MaxAuthors
                 /\ authors' = authors \cup
                        {[id |-> nextAuthorId, name |-> request.data.name]}
                 /\ nextAuthorId' = nextAuthorId + 1
                 /\ Respond(Response(HTTP_201_CREATED))
    /\ UNCHANGED <<books, nextBookId, currentYear, socialVars, raceVars>>

AuthorDetailView_update ==
    /\ Routed("AuthorDetailView", UpdateMethods)
    /\ IF ~IsAuthenticatedOrReadOnly(request.user, request.method)
       THEN NotAuthenticated /\ UNCHANGED authors
       ELSE IF request.pk \notin IdsOf(authors)
       THEN Respond(Response(HTTP_404_NOT_FOUND)) /\ UNCHANGED authors
       ELSE LET errors == AuthorSerializer_errors(request.data,
                                                  request.method = "PATCH")
                instance == RowByPk(authors, request.pk)
            IN  IF errors # {}
                THEN Respond(ValidationError(errors)) /\ UNCHANGED authors
                ELSE /\ authors' = (authors \ {instance}) \cup
                            {AuthorSerializer_update(instance, request.data)}
                     /\ Respond(Response(HTTP_200_OK))
    /\ UNCHANGED <<nextAuthorId, books, nextBookId, currentYear,
                   socialVars, raceVars>>

AuthorDetailView_destroy ==
    /\ Routed("AuthorDetailView", {"DELETE"})
    /\ IF ~IsAuthenticatedOrReadOnly(request.user, request.method)
       THEN NotAuthenticated /\ UNCHANGED <<authors, books>>
       ELSE IF request.pk \notin IdsOf(authors)
       THEN /\ Respond(Response(HTTP_404_NOT_FOUND))
            /\ UNCHANGED <<authors, books>>
       ELSE /\ authors' = authors \ {RowByPk(authors, request.pk)}
            /\ books' = CascadeBooks(books, request.pk)
            /\ Respond(Response(HTTP_204_NO_CONTENT))
    /\ UNCHANGED <<nextAuthorId, nextBookId, currentYear, socialVars,
                   raceVars>>

\* ------------------------------------------------------------------ books
\* the create handler of a book view: permission, is_valid, save
Book_create(permitted) ==
    /\ IF ~permitted
       THEN NotAuthenticated /\ UNCHANGED <<books, nextBookId>>
       ELSE LET errors == BookSerializer_errors(request.data, FALSE, authors,
                                                currentYear)
            IN  IF errors # {}
                THEN /\ Respond(ValidationError(errors))
                     /\ UNCHANGED <<books, nextBookId>>
                ELSE /\ nextBookId <= MaxBooks
                     /\ books' = books \cup
                            {[id |-> nextBookId,
                              title |-> request.data.title,
                              publication_year |->
                                  request.data.publication_year,
                              author |-> request.data.author]}
                     /\ nextBookId' = nextBookId + 1
                     /\ Respond(Response(HTTP_201_CREATED))
    /\ UNCHANGED <<authors, nextAuthorId, currentYear, socialVars, raceVars>>

\* the update handler of a book view: permission, get_object, is_valid,
\* save.  Without a pk in the URL get_object fails its assertion.
Book_update(permitted) ==
    /\ IF ~permitted
       THEN NotAuthenticated /\ UNCHANGED books
       ELSE IF request.pk = NoPk
       THEN /\ Respond(Response(HTTP_500_INTERNAL_SERVER_ERROR))
            /\ UNCHANGED books
       ELSE IF request.pk \notin IdsOf(books)
       THEN Respond(Response(HTTP_404_NOT_FOUND)) /\ UNCHANGED books
       ELSE LET errors == BookSerializer_errors(request.data,
                              request.method = "PATCH", authors, currentYear)
                instance == RowByPk(books, request.pk)
            IN  IF errors # {}
                THEN Respond(ValidationError(errors)) /\ UNCHANGED books
                ELSE /\ books' = (books \ {instance}) \cup
                            {BookSerializer_update(instance, request.data)}
                     /\ Respond(Response(HTTP_200_OK))
    /\ UNCHANGED <<authors, nextAuthorId, nextBookId, currentYear,
                   socialVars, raceVars>>

\* the destroy handler of a book view: permission, get_object, delete
Book_destroy(permitted, deleted) ==
    /\ IF ~permitted
       THEN NotAuthenticated /\ UNCHANGED books
       ELSE IF request.pk = NoPk
       THEN /\ Respond(Response(HTTP_500_INTERNAL_SERVER_ERROR))
            /\ UNCHANGED books
       ELSE IF request.pk \notin IdsOf(books)
       THEN Respond(Response(HTTP_404_NOT_FOUND)) /\ UNCHANGED books
       ELSE /\ books' = books \ {RowByPk(books, request.pk)}
            /\ Respond(Response(deleted))
    /\ UNCHANGED <<authors, nextAuthorId, nextBookId, currentYear,
                   socialVars, raceVars>>

BookCreateView_create ==
    /\ Routed("BookCreateView", {"POST"})
    /\ Book_create(IsAuthenticated(request.user, request.method))

BookUpdateView_update ==
    /\ Routed("BookUpdateView", UpdateMethods)
    /\ Book_update(IsAuthenticated(request.user, request.method))

BookDeleteView_destroy ==
    /\ Routed("BookDeleteView", {"DELETE"})
    /\ Book_destroy(IsAuthenticated(request.user, request.method),
                    HTTP_200_OK)

BookListCreateView_post ==
    /\ Routed("BookListCreateView", {"POST"})
    /\ Book_create(IsAuthenticatedOrReadOnly(request.user, request.method))

BookDetailUpdateDeleteView_update ==
    /\ Routed("BookDetailUpdateDeleteView", UpdateMethods)
    /\ Book_update(IsAuthenticatedOrReadOnly(request.user, request.method))

BookDetailUpdateDeleteView_destroy ==
    /\ Routed("BookDetailUpdateDeleteView", {"DELETE"})
    /\ Book_destroy(IsAuthenticatedOrReadOnly(request.user, request.method),
                    HTTP_204_NO_CONTENT)

\* ------------------------------------------------------------------ reads
\* the list handler of a view: permission, then the serialized queryset
List(permitted) ==
    /\ IF ~permitted
       THEN NotAuthenticated
       ELSE Respond(Response(HTTP_200_OK))
    /\ UNCHANGED <<bookVars, socialVars, raceVars>>

\* the retrieve handler of a view: permission, get_object, serializer
Retrieve_FoundAlways(permitted, tbl) ==
    /\ IF ~permitted
       THEN NotAuthenticated
       ELSE Respond(Response(HTTP_200_OK))
    /\ UNCHANGED <<bookVars, socialVars, raceVars>>
Retrieve(permitted, tbl) ==
    /\ IF ~permitted
       THEN NotAuthenticated
       ELSE IF request.pk \notin IdsOf(tbl)
       THEN Respond(Response(HTTP_404_NOT_FOUND))
       ELSE Respond(Response(HTTP_200_OK))
    /\ UNCHANGED <<bookVars, socialVars, raceVars>>

api_overview ==
    /\ Routed("api_overview", {"GET"})
    /\ List(NoPermission(request.user, request.method))

AuthorListCreateView_get ==
    /\ Routed("AuthorListCreateView", {"GET"})
    /\ List(IsAuthenticatedOrReadOnly(request.user, request.method))

\* RetrieveAPIView with AuthorSerializer: the response carries the
\* representation of the author
AuthorDetailView_retrieve ==
    /\ Routed("AuthorDetailView", {"GET"})
    /\ IF ~IsAuthenticatedOrReadOnly(request.user, request.method)
       THEN NotAuthenticated
       ELSE IF request.pk \notin IdsOf(authors)
       THEN Respond(Response(HTTP_404_NOT_FOUND))
       ELSE Respond([status |-> HTTP_200_OK, errors |-> {},
                     data |-> AuthorSerializer_to_representation(
                                  RowByPk(authors, request.pk), books)])
    /\ UNCHANGED <<bookVars, socialVars, raceVars>>

\* the books that get_queryset, DjangoFilterBackend and SearchFilter let
\* through
filter_queryset(bookTbl, authorTbl, params, current_year) ==
    SearchFilter(
        BookFilter_filter_queryset(get_queryset(bookTbl, params), authorTbl,
                                   params, current_year),
        authorTbl, params)

\* BookListView.list: filter_queryset(get_queryset()) through the backends
\* DjangoFilterBackend, SearchFilter and OrderingFilter.  An invalid
\* filterset is answered with 400.
BookListView_list_StoresFiltered ==
    /\ Routed("BookListView", {"GET"})
    /\ LET params == request.params
           errors == BookFilter_errors(params)
       IN  IF ~NoPermission(request.user, request.method)
           THEN NotAuthenticated /\ UNCHANGED books
           ELSE IF errors # {}
           THEN Respond(ValidationError(errors)) /\ UNCHANGED books
           ELSE IF filter_by_decade_raises(cleaned_data(params).decade)
           THEN /\ Respond(Response(HTTP_500_INTERNAL_SERVER_ERROR))
                /\ UNCHANGED books
           ELSE LET filtered ==
                        filter_queryset(books, authors, params, currentYear)
                IN  /\ \E results \in
                            OrderingFilter(filtered, authors, params) :
                            Respond(ListResponse(results, MethodCalls(params)))
                    /\ books' = filtered
    /\ UNCHANGED <<authors, nextAuthorId, nextBookId, currentYear,
                   socialVars, raceVars>>
BookListView_list ==
    /\ Routed("BookListView", {"GET"})
    /\ LET params == request.params
           errors == BookFilter_errors(params)
       IN  IF ~NoPermission(request.user, request.method)
           THEN NotAuthenticated
           ELSE IF errors # {}
           THEN Respond(ValidationError(errors))
           ELSE IF filter_by_decade_raises(cleaned_data(params).decade)
           THEN Respond(Response(HTTP_500_INTERNAL_SERVER_ERROR))
           ELSE \E results \in
                    OrderingFilter(
                        filter_queryset(books, authors, params, currentYear),
                        authors, params) :
                    Respond(ListResponse(results, MethodCalls(params)))
    /\ UNCHANGED <<bookVars, socialVars, raceVars>>

BookDetailView_retrieve ==
    /\ Routed("BookDetailView", {"GET"})
    /\ Retrieve(NoPermission(request.user, request.method), books)

BookListCreateView_get ==
    /\ Routed("BookListCreateView", {"GET"})
    /\ List(IsAuthenticatedOrReadOnly(request.user, request.method))

BookDetailUpdateDeleteView_retrieve ==
    /\ Routed("BookDetailUpdateDeleteView", {"GET"})
    /\ Retrieve(IsAuthenticatedOrReadOnly(request.user, request.method),
                books)

\* the calendar year changes, between two requests
NewYear ==
    /\ request = NoRequest
    /\ currentYear < FirstYear + MaxYearTicks
    /\ currentYear' = currentYear + 1
    /\ UNCHANGED <<authors, nextAuthorId, books, nextBookId, socialVars,
                   raceVars, httpVars>>

NextBooks ==
    \/ ReceiveBookRequest
    \/ SendResponse
    \/ AuthorListCreateView_post
    \/ AuthorDetailView_update
    \/ AuthorDetailView_destroy
    \/ BookCreateView_create
    \/ BookUpdateView_update
    \/ BookDeleteView_destroy
    \/ BookListCreateView_post
    \/ BookDetailUpdateDeleteView_update
    \/ BookDetailUpdateDeleteView_destroy
    \/ api_overview
    \/ AuthorListCreateView_get
    \/ AuthorDetailView_retrieve
    \/ BookListView_list
    \/ BookDetailView_retrieve
    \/ BookListCreateView_get
    \/ BookDetailUpdateDeleteView_retrieve
    \/ NewYear

SpecBooks == Init /\ [][NextBooks]_vars

\* ------------------------------------------------ a library in the store
\* the authors and books that the setUp of the API tests stores
FixtureAuthors ==
    {[id |-> 1,
      name |-> <<"J", ".", "K", ".", " ", "R", "o", "w", "l", "i", "n",
               "g">>],
     [id |-> 2,
      name |-> <<"G", "e", "o", "r", "g", "e", " ", 
               "O", "r", "w", "e", "l", "l">>]}
FixtureBooks ==
    {[id |-> 1,
      title |-> <<"H", "a", "r", "r", "y", " ",
                "P", "o", "t", "t", "e", "r">>,
      publication_year |-> 1997, author |-> 1],
     [id |-> 2, title |-> <<"1", "9", "8", "4">>,
      publication_year |-> 1949, author |-> 2]}

\* the API serving the store of the fixture
InitLibrary ==
    /\ posts = {}
    /\ nextPostId = 1
    /\ likes = <<>>
    /\ notifications = <<>>
    /\ likeUnique \in BOOLEAN
    /\ comments = {}
    /\ nextCommentId = 1
    /\ authors = FixtureAuthors
    /\ nextAuthorId = 3
    /\ books = FixtureBooks
    /\ nextBookId = 3
    /\ currentYear = FirstYear
    /\ pc = [w \in Workers |-> "idle"]
    /\ local = [w \in Workers |-> Idle]
    /\ request = NoRequest
    /\ response = Response(0)
    /\ before = Snapshot
    /\ nreq = 0

SpecLibrary == InitLibrary /\ [][NextBooks]_vars

\* the API serving the authors of the fixture, who have no book yet
InitCatalogue ==
    /\ posts = {}
    /\ nextPostId = 1
    /\ likes = <<>>
    /\ notifications = <<>>
    /\ likeUnique \in BOOLEAN
    /\ comments = {}
    /\ nextCommentId = 1
    /\ authors = FixtureAuthors
    /\ nextAuthorId = 3
    /\ books = {}
    /\ nextBookId = 1
    /\ currentYear = FirstYear
    /\ pc = [w \in Workers |-> "idle"]
    /\ local = [w \in Workers |-> Idle]
    /\ request = NoRequest
    /\ response = Response(0)
    /\ before = Snapshot
    /\ nreq = 0

SpecCatalogue == InitCatalogue /\ [][NextBooks]_vars

\* ----------------------------------------------- listing a shelf of books
\* Authors and books for the list requests: titles and names that match a
\* search term in the title alone, in the name alone, in both or in
\* neither, and years on both sides of the ends of a decade and of the
\* ten years before the current year.
ShelfAuthors ==
    {[id |-> 1, name |-> <<"B", "c">>], [id |-> 2, name |-> <<"d">>]}
ShelfBooks ==
    {[id |-> 1, title |-> <<"a", "b">>, publication_year |-> 2009,
      author |-> 1],
     [id |-> 2, title |-> <<"A">>, publication_year |-> 2010, author |-> 2],
     [id |-> 3, title |-> <<"d">>, publication_year |-> 2015, author |-> 1],
     [id |-> 4, title |-> <<"a", "b">>, publication_year |-> 2015,
      author |-> 2],
     [id |-> 5, title |-> <<"A">>, publication_year |-> 2019, author |-> 1],
     [id |-> 6, title |-> <<"d">>, publication_year |-> 2020, author |-> 2]}

\* the API serving at most MaxShelf of these books
InitFilter ==
    /\ posts = {}
    /\ nextPostId = 1
    /\ likes = <<>>
    /\ notifications = <<>>
    /\ likeUnique \in BOOLEAN
    /\ comments = {}
    /\ nextCommentId = 1
    /\ authors = ShelfAuthors
    /\ nextAuthorId = 3
    /\ books \in {shelf \in SUBSET ShelfBooks : Cardinality(shelf) <= MaxShelf}
    /\ nextBookId = 7
    /\ currentYear = FirstYear
    /\ pc = [w \in Workers |-> "idle"]
    /\ local = [w \in Workers |-> Idle]
    /\ request = NoRequest
    /\ response = Response(0)
    /\ before = Snapshot
    /\ nreq = 0

\* a list request with query parameters arrives
ReceiveListRequest ==
    /\ request = NoRequest
    /\ request' \in {ListRequest("BookListView", user, params) :
                        user \in Clients, params \in QueryParams}
    /\ response' = Response(0)
    /\ UNCHANGED <<before, nreq, bookVars, socialVars, raceVars>>

NextFilter ==
    \/ ReceiveListRequest
    \/ BookListView_list
    \/ SendResponse
    \/ NewYear

SpecFilter == InitFilter /\ [][NextFilter]_vars

\* ------------------------------------------- both APIs over a small store
\* A store as earlier requests have left it: a post with a comment, an
\* author with a book, and no room for more authors and books.  One more
\* request reaches the social media API, any number the book API.
InitStore ==
    /\ posts = {[id |-> 1, author |-> "user1", content |-> "draft",
                 likes |-> {}]}
    /\ nextPostId = 2
    /\ likes = <<>>
    /\ notifications = <<>>
    /\ likeUnique \in BOOLEAN
    /\ comments = {[id |-> 1, post |-> 1, author |-> "user1",
                    content |-> "draft"]}
    /\ nextCommentId = 2
    /\ authors = {a \in FixtureAuthors : a.id = 1}
    /\ nextAuthorId = MaxAuthors + 1
    /\ books = {b \in FixtureBooks : b.id = 1}
    /\ nextBookId = MaxBooks + 1
    /\ currentYear = FirstYear
    /\ pc = [w \in Workers |-> "idle"]
    /\ local = [w \in Workers |-> Idle]
    /\ request = NoRequest
    /\ response = Response(0)
    /\ before = Snapshot
    /\ nreq = MaxRequests - 1

\* a request to the social media API is handled while none to the book API
\* is in flight
NextStore ==
    \/ request = NoRequest /\ (Next \/ NextPosts)
    \/ NextBooks

SpecStore == InitStore /\ [][NextStore]_vars

\* ============================================== django_blog: comment views
HTTP_302_FOUND == 302
HTTP_403_FORBIDDEN == 403

\* test_func of CommentUpdateView and of CommentDeleteView
test_func_AnyUser(user, comment) == TRUE
test_func(user, comment) == user = comment.author

\* CommentUpdateView: LoginRequiredMixin.dispatch redirects an anonymous
\* user to the login page; UserPassesTestMixin.dispatch then calls
\* test_func, whose get_object raises Http404 for a missing pk, and raises
\* PermissionDenied when it returns False; UpdateView.get renders the form,
\* UpdateView.post validates CommentForm (clean_content rejects a content
\* that is empty once stripped), saves and redirects to the post.
CommentUpdateView_dispatch ==
    \E user \in Requesters, pk \in CommentPks, method \in {"GET", "POST"},
       content \in Contents \cup {" "} :
        /\ Receive("CommentUpdateView", method, user, pk)
        /\ IF user = Anonymous
           THEN /\ response' = [status |-> HTTP_302_FOUND, errors |-> {},
                                location |-> "login"]
                /\ UNCHANGED comments
           ELSE IF pk \notin PostIdsOf(comments)
           THEN /\ response' = Response(HTTP_404_NOT_FOUND)
                /\ UNCHANGED comments
           ELSE LET comment == PostByPk(comments, pk) IN
                IF ~test_func(user, comment)
                THEN /\ response' = Response(HTTP_403_FORBIDDEN)
                     /\ UNCHANGED comments
                ELSE IF method = "GET"
                THEN /\ response' = Response(HTTP_200_OK)
                     /\ UNCHANGED comments
                ELSE IF content \in {"", " "}
                THEN /\ response' = [status |-> HTTP_200_OK,
                                     errors |-> {<<"content", "invalid">>}]
                     /\ UNCHANGED comments
                ELSE /\ comments' = (comments \ {comment}) \cup
                                        {[comment EXCEPT !.content = content]}
                     /\ response' = [status |-> HTTP_302_FOUND,
                                     errors |-> {}, location |-> "post"]
        /\ UNCHANGED <<posts, nextPostId, likes, notifications, likeUnique,
                       nextCommentId, raceVars, bookVars>>

\* CommentDeleteView: the same two mixins; DeleteView.get renders the
\* confirmation page, DeleteView.post deletes and redirects to the post.
CommentDeleteView_dispatch ==
    \E user \in Requesters, pk \in CommentPks, method \in {"GET", "POST"} :
        /\ Receive("CommentDeleteView", method, user, pk)
        /\ IF user = Anonymous
           THEN /\ response' = [status |-> HTTP_302_FOUND, errors |-> {},
                                location |-> "login"]
                /\ UNCHANGED comments
           ELSE IF pk \notin PostIdsOf(comments)
           THEN /\ response' = Response(HTTP_404_NOT_FOUND)
                /\ UNCHANGED comments
           ELSE LET comment == PostByPk(comments, pk) IN
                IF ~test_func(user, comment)
                THEN /\ response' = Response(HTTP_403_FORBIDDEN)
                     /\ UNCHANGED comments
                ELSE IF method = "GET"
                THEN /\ response' = Response(HTTP_200_OK)
                     /\ UNCHANGED comments
                ELSE /\ comments' = comments \ {comment}
                     /\ response' = [status |-> HTTP_302_FOUND,
                                     errors |-> {}, location |-> "post"]
        /\ UNCHANGED <<posts, nextPostId, likes, notifications, likeUnique,
                       nextCommentId, raceVars, bookVars>>

\* the blog after CommentCreateView has stored a comment of each user on
\* the one post (form_valid: post from the URL, author = request.user)
InitBlog ==
    /\ posts = {[id |-> 1, author |-> "user1", content |-> "draft",
                 likes |-> {}]}
    /\ nextPostId = 2
    /\ likes = <<>>
    /\ notifications = <<>>
    /\ likeUnique = TRUE
    /\ comments = {[id |-> 1, post |-> 1, author |-> "user1",
                    content |-> "draft"],
                   [id |-> 2, post |-> 1, author |-> "user2",
                    content |-> "draft"]}
    /\ nextCommentId = 3
    /\ authors = {}
    /\ nextAuthorId = 1
    /\ books = {}
    /\ nextBookId = 1
    /\ currentYear = FirstYear
    /\ pc = [w \in Workers |-> "idle"]
    /\ local = [w \in Workers |-> Idle]
    /\ request = NoRequest
    /\ response = Response(0)
    /\ before = Snapshot
    /\ nreq = 0

NextBlog == CommentUpdateView_dispatch \/ CommentDeleteView_dispatch

SpecBlog == InitBlog /\ [][NextBlog]_vars

\* ================================================ likes, interleaved views
\* like_post as the sequence of its queries.  Each worker runs one view at
\* a time; the steps of different workers interleave freely, as no lock or
\* transaction spans the queries of a view.  Only like requests (and post
\* creation) are issued, the case of two likes racing.

\* permission check and get_object_or_404(Post, pk=pk)
race_like_begin(w, user, pk) ==
    /\ pc[w] = "idle"
    /\ Receive("like_post", "POST", user, pk)
    /\ IF ~IsAuthenticated(user, "POST")
       THEN /\ \E s \in NotAuthenticatedStatus : response' = Response(s)
            /\ UNCHANGED <<pc, local>>
       ELSE IF pk \notin PostIdsOf(posts)
       THEN /\ response' = Response(HTTP_404_NOT_FOUND)
            /\ UNCHANGED <<pc, local>>
       ELSE /\ pc' = [pc EXCEPT ![w] = "get"]
            /\ local' = [local EXCEPT ![w] =
                   [view |-> "like_post", user |-> user, pk |-> pk,
                    created |-> FALSE]]
            /\ UNCHANGED response
    /\ UNCHANGED socialVars
    /\ UNCHANGED <<bookVars, commentVars>>

\* get_or_create: the SELECT
race_like_get(w) ==
    /\ pc[w] = "get"
    /\ LET found == Like_get(likes, local[w].user, local[w].pk) IN
       IF found = "DoesNotExist"
       THEN /\ pc' = [pc EXCEPT ![w] = "create"]
            /\ UNCHANGED <<local, response>>
       ELSE IF found = "found"
       THEN /\ pc' = [pc EXCEPT ![w] = "notify"]
            /\ UNCHANGED <<local, response>>
       ELSE /\ pc' = [pc EXCEPT ![w] = "idle"]
            /\ local' = [local EXCEPT ![w] = Idle]
            /\ response' = Response(HTTP_500_INTERNAL_SERVER_ERROR)
    /\ UNCHANGED <<socialVars, request, before, nreq>>
    /\ UNCHANGED <<bookVars, commentVars>>

\* get_or_create: the INSERT after the SELECT found nothing
race_like_create(w) ==
    /\ pc[w] = "create"
    /\ LET ins == Like_create(likes, likeUnique, local[w].user, local[w].pk) IN
       IF ins.error = "none"
       THEN /\ likes' = ins.table
            /\ local' = [local EXCEPT ![w].created = TRUE]
            /\ pc' = [pc EXCEPT ![w] = "notify"]
       ELSE /\ pc' = [pc EXCEPT ![w] = "get_again"]
            /\ UNCHANGED <<likes, local>>
    /\ UNCHANGED <<posts, nextPostId, notifications, likeUnique, httpVars>>
    /\ UNCHANGED <<bookVars, commentVars>>

\* get_or_create: the second SELECT after IntegrityError
race_like_get_again(w) ==
    /\ pc[w] = "get_again"
    /\ IF Like_get(likes, local[w].user, local[w].pk) = "found"
       THEN /\ pc' = [pc EXCEPT ![w] = "notify"]
            /\ UNCHANGED <<local, response>>
       ELSE /\ pc' = [pc EXCEPT ![w] = "idle"]
            /\ local' = [local EXCEPT ![w] = Idle]
            /\ response' = Response(HTTP_500_INTERNAL_SERVER_ERROR)
    /\ UNCHANGED <<socialVars, request, before, nreq>>
    /\ UNCHANGED <<bookVars, commentVars>>

\* the notification INSERT and the response
race_like_notify(w) ==
    /\ pc[w] = "notify"
    /\ LET post == PostByPk(posts, local[w].pk) IN
       notifications' =
           IF ShouldNotify(local[w].created, post, local[w].user)
           THEN Append(notifications, NewNotification(post, local[w].user))
           ELSE notifications
    /\ response' = Response(HTTP_200_OK)
    /\ pc' = [pc EXCEPT ![w] = "idle"]
    /\ local' = [local EXCEPT ![w] = Idle]
    /\ UNCHANGED <<posts, nextPostId, likes, likeUnique, request, before, nreq>>
    /\ UNCHANGED <<bookVars, commentVars>>

RaceBegin == \E w \in Workers, user \in Requesters, pk \in PostPks :
                 race_like_begin(w, user, pk)
RaceGet == \E w \in Workers : race_like_get(w)
RaceCreate == \E w \in Workers : race_like_create(w)
RaceGetAgain == \E w \in Workers : race_like_get_again(w)
RaceNotify == \E w \in Workers : race_like_notify(w)

NextRace ==
    CreatePost \/ RaceBegin \/ RaceGet \/ RaceCreate \/ RaceGetAgain
        \/ RaceNotify

SpecRace == Init /\ [][NextRace]_vars

\* C8: when like requests of one user for one post are handled
\* concurrently, then once all of them have finished at most one Like row
\* of the pair exists and at most one Notification was created for it.
C8_ConcurrentLikesLeaveOneLike ==
    (\A w \in Workers : pc[w] = "idle") =>
        \A user \in Users, pk \in PostPks :
            /\ CountRows(likes, LikeRow(user, pk)) <= 1
            /\ CountNotifications(notifications, user, pk) <= 1

\* ===================================================== likes, sequential
\* the last request was a like (an unlike) by an authenticated user on a
\* post that exists, so that the view ran past its permission and 404 checks
LikeHandled ==
    /\ request.view = "like_post"
    /\ request.user \in Users
    /\ request.pk \in PostIdsOf(before.posts)
UnlikeHandled ==
    /\ request.view = "unlike_post"
    /\ request.user \in Users
    /\ request.pk \in PostIdsOf(before.posts)
LikedBefore == Like_get(before.likes, request.user, request.pk) # "DoesNotExist"
RequestedPost == PostByPk(before.posts, request.pk)

\* C1: after any sequence of like and unlike requests handled one at a
\* time, the Like table holds at most one row for every (user, post) pair.
C1_AtMostOneLikePerPair ==
    \A user \in Users, pk \in PostPks :
        CountRows(likes, LikeRow(user, pk)) <= 1

\* a user has liked, unliked and liked a post again, and one row is there
C1_Witness ==
    /\ LikeHandled
    /\ CountNotifications(notifications, request.user, request.pk) >= 2
    /\ CountRows(likes, LikeRow(request.user, request.pk)) = 1

\* C2: a like request by a user on a post for which the Like row already
\* exists is answered with a 4xx status and inserts no second row.
C2_DuplicateLikeRejected ==
    (LikeHandled /\ LikedBefore) =>
        (Is4xx(response.status) /\ likes = before.likes)

\* C3: when a user likes a post that they have no Like row for (their first
\* like in particular) and they are not the post's author, the request
\* creates the Like row and exactly one Notification, with the post's author
\* as recipient, the user as actor and the post as target.
C3_FirstLikeNotifiesAuthor ==
    (LikeHandled /\ ~LikedBefore /\ RequestedPost.author # request.user) =>
        /\ CountRows(likes, LikeRow(request.user, request.pk)) = 1
        /\ Len(notifications) = Len(before.notifications) + 1
        /\ SubSeq(notifications, 1, Len(before.notifications))
               = before.notifications
        /\ LET n == notifications[Len(notifications)] IN
               /\ n.recipient = RequestedPost.author
               /\ n.actor = request.user
               /\ n.target = request.pk

\* the very first like of the store, by a user who is not the author
C3_Witness ==
    /\ LikeHandled
    /\ before.likes = <<>>
    /\ before.notifications = <<>>
    /\ RequestedPost.author # request.user
    /\ Len(notifications) = 1

\* C4: liking one's own post creates no notification, and no notification
\* in the table has its recipient equal to its actor.
C4_NoSelfNotification ==
    /\ \A i \in 1..Len(notifications) :
           notifications[i].recipient # notifications[i].actor
    /\ (LikeHandled /\ RequestedPost.author = request.user) =>
           notifications = before.notifications

\* an author has liked their own post and the Like row was created
C4_Witness ==
    /\ LikeHandled
    /\ RequestedPost.author = request.user
    /\ ~LikedBefore
    /\ CountRows(likes, LikeRow(request.user, request.pk)) = 1

\* C5: a like request while the Like row already exists leaves the
\* Notification table unchanged.
C5_DuplicateLikeNoNotification ==
    (LikeHandled /\ LikedBefore) => notifications = before.notifications

\* a user who is not the author has liked the same post a second time
C5_Witness ==
    /\ LikeHandled
    /\ LikedBefore
    /\ RequestedPost.author # request.user
    /\ response.status = HTTP_200_OK
    /\ notifications # <<>>

\* C6 as stated: over any sequence of like and unlike requests at most one
\* Notification with a given actor and target post is ever created.
C6_AtMostOneNotificationEver ==
    \A user \in Users, pk \in PostPks :
        CountNotifications(notifications, user, pk) <= 1

\* C6 amended: a like request creates exactly one Notification with actor U
\* and target P when it is by U on P, finds no Like row for (U, P) and U is
\* not P's author; every other request creates none (so like, unlike, like
\* again leaves two).
C6_OneNotificationPerCreatedLike ==
    \A user \in Users, pk \in PostPks :
        CountNotifications(notifications, user, pk)
          = CountNotifications(before.notifications, user, pk)
            + (IF /\ LikeHandled
                  /\ request.user = user
                  /\ request.pk = pk
                  /\ ~LikedBefore
                  /\ RequestedPost.author # user
               THEN 1 ELSE 0)

\* like, unlike, like again by a user who is not the author
C6_Witness ==
    /\ LikeHandled
    /\ ~LikedBefore
    /\ CountNotifications(before.notifications, request.user, request.pk) = 1
    /\ CountNotifications(notifications, request.user, request.pk) = 2

\* C7: an unlike request by a user on a post removes the Like row of that
\* pair and leaves every Notification and every other Like row unchanged.
C7_UnlikeRemovesOnlyThatLike ==
    UnlikeHandled =>
        /\ CountRows(likes, LikeRow(request.user, request.pk)) = 0
        /\ notifications = before.notifications
        /\ likes = SelectSeq(before.likes,
               LAMBDA row : row # LikeRow(request.user, request.pk))
        /\ \A user \in Users, pk \in PostPks :
               <<user, pk>> # <<request.user, request.pk>> =>
                   CountRows(likes, LikeRow(user, pk))
                     = CountRows(before.likes, LikeRow(user, pk))

\* an unlike removed a row whose like had been notified, while another
\* user's like of the same post stayed
C7_Witness ==
    /\ UnlikeHandled
    /\ LikedBefore
    /\ CountNotifications(notifications, request.user, request.pk) >= 1
    /\ \E other \in Users \ {request.user} :
           CountRows(likes, LikeRow(other, request.pk)) = 1

\* ========================================================= book writes
BookViews ==
    {"BookCreateView", "BookUpdateView", "BookDeleteView",
     "BookListCreateView", "BookDetailUpdateDeleteView"}
AuthorViews == {"AuthorListCreateView", "AuthorDetailView"}

\* this step is the view answering the request in flight
Answered == InFlight /\ response'.status # 0

\* the request in flight is a create of a book, or an update of the book
\* its URL names, by an authenticated user, with a publication_year that
\* is a number
BookSaveWithYear ==
    /\ request.view \in BookViews
    /\ request.method \in {"POST", "PUT", "PATCH"}
    /\ request.user # Anonymous
    /\ request.method = "POST" \/ request.pk # NoPk
    /\ request.data.publication_year \notin {AbsentNumber, Malformed}

\* the create or update of BookSaveWithYear reaches the serializer
ReachesSerializer ==
    request.method = "POST" \/ request.pk \in IdsOf(books)

C9_Step ==
    (Answered /\ BookSaveWithYear) =>
        IF request.data.publication_year > currentYear
        THEN /\ Is4xx(response'.status)
             /\ books' = books
             /\ ReachesSerializer =>
                    /\ response'.status = HTTP_400_BAD_REQUEST
                    /\ <<"publication_year", "future">> \in response'.errors
        ELSE \A e \in response'.errors : e[1] # "publication_year"

C10_Step ==
    (/\ Answered
     /\ request.view \in BookViews \cup AuthorViews
     /\ request.method \notin SAFE_METHODS
     /\ request.user = Anonymous) =>
        /\ response'.status \in {401, 403}
        /\ authors' = authors
        /\ books' = books

\* C10: every create, update or delete request without authentication to a
\* Book or Author write endpoint is rejected with 401 or 403 and leaves the
\* Author and Book tables unchanged.
C10_UnauthenticatedWriteRejected == [][C10_Step]_vars

\* an unauthenticated write was refused while authors and books are stored
C10_Witness ==
    /\ response.status \in NotAuthenticatedStatus
    /\ request.view \in BookViews \cup AuthorViews
    /\ request.method = "DELETE"
    /\ request.user = Anonymous
    /\ authors # {}
    /\ books # {}

\* ================================================================ reads
ReadViews ==
    {"api_overview", "AuthorListCreateView", "AuthorDetailView",
     "BookListView", "BookDetailView", "BookListCreateView",
     "BookDetailUpdateDeleteView"}

\* the object a detail request names exists; a list request names none
NamedObjectExists ==
    CASE request.view = "AuthorDetailView" -> request.pk \in IdsOf(authors)
      [] request.view \in {"BookDetailView", "BookDetailUpdateDeleteView"}
            -> request.pk \in IdsOf(books)
      [] OTHER -> TRUE

C11_Step ==
    (/\ Answered
     /\ request.view \in ReadViews
     /\ request.method = "GET"
     /\ request.user = Anonymous
     /\ NamedObjectExists) =>
        /\ response'.status = HTTP_200_OK
        /\ UNCHANGED <<bookVars, commentVars>>

\* C11: a GET without credentials to the book list, the detail of an
\* existing book, the author list, the detail of an existing author or the
\* API overview is answered with 200, whatever the tables hold, and changes
\* no table.
C11_UnauthenticatedReadSucceeds == [][C11_Step]_vars

\* the detail of a stored book was read without credentials
C11_Witness ==
    /\ response.status = HTTP_200_OK
    /\ request.view = "BookDetailView"
    /\ request.method = "GET"
    /\ request.user = Anonymous
    /\ request.pk \in IdsOf(books)

\* ============================================================ ownership
\* the request is an update or delete of a stored Post or Comment by an
\* authenticated user who is not its author
ModifiesObjectOfOther ==
    /\ request.view \in {"PostViewSet", "CommentViewSet"}
    /\ request.method \in {"PUT", "PATCH", "DELETE"}
    /\ request.user \in Users
    /\ LET tbl == IF request.view = "PostViewSet"
                  THEN before.posts ELSE before.comments
       IN  /\ request.pk \in PostIdsOf(tbl)
           /\ PostByPk(tbl, request.pk).author # request.user

\* C12: an update or delete request on a Post or Comment by an
\* authenticated user who is not its author is rejected with a 4xx status
\* and leaves the object as it was.
C12_OnlyAuthorModifies ==
    ModifiesObjectOfOther =>
        /\ Is4xx(response.status)
        /\ LET tbl == IF request.view = "PostViewSet"
                      THEN before.posts ELSE before.comments
               now == IF request.view = "PostViewSet"
                      THEN posts ELSE comments
           IN  PostByPk(tbl, request.pk) \in now

\* ======================================================= author deletion
C13_Step ==
    (/\ Answered
     /\ request.view = "AuthorDetailView"
     /\ request.method = "DELETE"
     /\ response'.status = HTTP_204_NO_CONTENT) =>
        /\ request.pk \notin IdsOf(authors')
        /\ \A b \in books' : b.author # request.pk
        /\ \A b \in books : b.author # request.pk => b \in books'
        /\ books' \subseteq books

\* C13: after an Author is deleted no Book references it: the delete
\* removes every Book of that Author and leaves the Books of all other
\* Authors as they were.
C13_AuthorDeleteCascades == [][C13_Step]_vars

\* J.K. Rowling was deleted: her book is gone, George Orwell and his book
\* are stored as before
C13_Witness ==
    /\ request.view = "AuthorDetailView"
    /\ request.method = "DELETE"
    /\ request.pk = 1
    /\ response.status = HTTP_204_NO_CONTENT
    /\ authors = {a \in FixtureAuthors : a.id = 2}
    /\ books = {b \in FixtureBooks : b.id = 2}

\* ======================================================== book list query
\* a list request with query parameters has been answered
ListAnswered ==
    /\ request.view = "BookListView"
    /\ response.status # 0
ListOk == ListAnswered /\ response.status = HTTP_200_OK

\* the books of the response
ResultSet == {response.results[i] : i \in 1..Len(response.results)}

\* the query parameters without one of them, and with one of them replaced
Without(params, key) == [k \in (DOMAIN params) \ {key} |-> params[k]]
With(params, key, value) ==
    [k \in (DOMAIN params) \cup {key} |->
        IF k = key THEN value ELSE params[k]]

\* the books that the same request without the parameter is answered with
ListedWithout(key) ==
    filter_queryset(books, authors, Without(request.params, key),
                    currentYear)

\* C14: filtering by a decade D of the enumerated set returns exactly the
\* books (of the request without the decade) whose publication_year lies
\* in [start(D), start(D) + 9], start(D) being the first four characters
\* of D as an integer.
C14_DecadeIsInclusiveRange ==
    (/\ ListAnswered
     /\ Has(request.params, "decade")
     /\ request.params["decade"] \in DecadeChoices
     /\ BookFilter_errors(request.params) = {}) =>
        /\ response.status = HTTP_200_OK
        /\ LET start == int(Prefix(request.params["decade"], 4)).value IN
           ResultSet = {b \in ListedWithout("decade") :
                          /\ start <= b.publication_year
                          /\ b.publication_year <= start + 9}

\* the 2010s were asked for while books of 2009, 2010, 2019 or 2020 are
\* stored: a book of the first or last year of the decade is returned and
\* a book of the year before or after is not
C14_Witness ==
    /\ ListOk
    /\ Has(request.params, "decade")
    /\ request.params["decade"] = <<"2", "0", "1", "0", "s">>
    /\ \E b \in ResultSet : b.publication_year \in {2010, 2019}
    /\ \E b \in books \ ResultSet : b.publication_year \in {2009, 2020}

\* a numeric parameter of the request carries a value that is no number
MalformedNumeric(key) ==
    /\ Has(request.params, key)
    /\ strip(request.params[key]) # <<>>
    /\ ~int(request.params[key]).ok

\* C15: a malformed value of year_from, year_to, publication_year,
\* publication_year_min or publication_year_max is ignored: the request is
\* answered with 200 and with the books of the same request without that
\* parameter.
C15_MalformedNumericIgnored ==
    \A key \in YearParams \cup NumberFilters :
        (/\ ListAnswered
         /\ MalformedNumeric(key)
         /\ BookFilter_errors(Without(request.params, key)) = {}) =>
            /\ response.status = HTTP_200_OK
            /\ ResultSet = ListedWithout(key)

\* the decade values that are neither empty nor one of the choices
OutsideChoices(value) == value # <<>> /\ value \notin DecadeChoices

\* C16: a decade value outside the enumerated set is rejected by the
\* validation of the filterset with 400, and filter_by_decade is never
\* called with a value whose first four characters are not those of one
\* of the choices.
C16_DecadeOutsideChoicesRejected ==
    ListAnswered =>
        /\ (/\ Has(request.params, "decade")
            /\ OutsideChoices(request.params["decade"])) =>
                /\ response.status = HTTP_400_BAD_REQUEST
                /\ <<"decade", "invalid">> \in response.errors
        /\ response.status = HTTP_200_OK =>
                \A call \in response.calls :
                    call[1] = "filter_by_decade" =>
                        Prefix(call[2], 4) \in
                            {Prefix(choice, 4) : choice \in DecadeChoices}

\* the decade 1930s was asked for and refused
C16_Witness ==
    /\ ListAnswered
    /\ Has(request.params, "decade")
    /\ request.params["decade"] = <<"1", "9", "3", "0", "s">>
    /\ response.status = HTTP_400_BAD_REQUEST
    /\ books # {}

\* C17: an empty value of decade, has_recent_publication or search leaves
\* the collection unfiltered: the request is answered with the books of
\* the same request without that parameter.
C17_EmptyValueUnfiltered ==
    \A key \in {"decade", "has_recent_publication", "search"} :
        (/\ ListAnswered
         /\ Has(request.params, key)
         /\ request.params[key] = <<>>
         /\ BookFilter_errors(request.params) = {}) =>
            /\ response.status = HTTP_200_OK
            /\ ResultSet = ListedWithout(key)

\* has_recent_publication was empty and books on both sides of the ten
\* years were returned
C17_Witness ==
    /\ ListOk
    /\ Has(request.params, "has_recent_publication")
    /\ request.params["has_recent_publication"] = <<>>
    /\ \E b \in ResultSet : b.publication_year >= currentYear - 10
    /\ \E b \in ResultSet : b.publication_year < currentYear - 10

\* the books listed when has_recent_publication of the request is value
ListedWithRecent(value) ==
    filter_queryset(books, authors,
                    With(request.params, "has_recent_publication", value),
                    currentYear)

\* C18: has_recent_publication=true returns exactly the books published
\* in the last 10 years (publication_year >= current year - 10), =false
\* exactly the older ones, and the two results are disjoint and together
\* the whole collection.
C18_RecentPartitions ==
    (/\ ListAnswered
     /\ Has(request.params, "has_recent_publication")
     /\ BookFilter_errors(request.params) = {}) =>
        LET all == ListedWithout("has_recent_publication")
            recent == ListedWithRecent(<<"t", "r", "u", "e">>)
            older == ListedWithRecent(<<"f", "a", "l", "s", "e">>)
            value == lower(request.params["has_recent_publication"])
        IN  /\ response.status = HTTP_200_OK
            /\ value = <<"t", "r", "u", "e">> =>
                    ResultSet =
                        {b \in all : b.publication_year >= currentYear - 10}
            /\ value = <<"f", "a", "l", "s", "e">> =>
                    ResultSet =
                        {b \in all : b.publication_year < currentYear - 10}
            /\ value \in {<<"t", "r", "u", "e">>, <<"f", "a", "l", "s", "e">>} =>
                    ResultSet = IF value = <<"t", "r", "u", "e">> THEN recent ELSE older
            /\ recent \cap older = {}
            /\ recent \cup older = all

\* recent books were asked for; one of exactly ten years ago is returned
\* and an older one is not
C18_Witness ==
    /\ ListOk
    /\ Has(request.params, "has_recent_publication")
    /\ request.params["has_recent_publication"] = <<"t", "r", "u", "e">>
    /\ \E b \in ResultSet : b.publication_year = currentYear - 10
    /\ \E b \in books \ ResultSet : b.publication_year < currentYear - 10

\* C19: search=T returns exactly the books (of the request without the
\* search) whose title contains T or whose author's name contains T,
\* whatever the case of the letters.
C19_SearchTitleOrAuthorName ==
    (/\ ListAnswered
     /\ Has(request.params, "search")
     /\ request.params["search"] # <<>>
     /\ BookFilter_errors(request.params) = {}) =>
        /\ response.status = HTTP_200_OK
        /\ LET T == request.params["search"] IN
           ResultSet =
               {b \in ListedWithout("search") :
                   \/ icontains(b.title, T)
                   \/ icontains(AuthorName(authors, b), T)}

\* a search returned a book for its author's name alone and left out a
\* book that matches in neither field
C19_Witness ==
    /\ ListOk
    /\ Has(request.params, "search")
    /\ request.params["search"] = <<"C">>
    /\ \E b \in ResultSet : ~icontains(b.title, <<"C">>)
    /\ books \ ResultSet # {}

\* C20: without an ordering parameter the books are returned by
\* publication_year descending, and those of the same publication_year by
\* title ascending.
C20_DefaultNewestFirstThenTitle ==
    (ListOk /\ ~Has(request.params, "ordering")) =>
        \A i \in 1..Len(response.results) :
            \A j \in (i + 1)..Len(response.results) :
                LET a == response.results[i]
                    b == response.results[j]
                IN  \/ a.publication_year > b.publication_year
                    \/ /\ a.publication_year = b.publication_year
                       /\ ~StrLess(b.title, a.title)

\* two books of the same year were returned, by title
C20_Witness ==
    /\ ListOk
    /\ ~Has(request.params, "ordering")
    /\ Len(response.results) = 2
    /\ response.results[1].publication_year
           = response.results[2].publication_year
    /\ StrLess(response.results[1].title, response.results[2].title)

\* a comes before b by the field F of an ordering parameter, ascending
SortsBefore(a, b, F) ==
    CASE F = Field_title -> StrLess(a.title, b.title)
      [] F = Field_publication_year -> a.publication_year < b.publication_year
      [] F = Field_author__name ->
            StrLess(AuthorName(authors, a), AuthorName(authors, b))

\* C21: with ordering=F, F one of title, publication_year and
\* author__name, the books are returned ascending by F, and with
\* ordering=-F descending by F; the books returned are those of the same
\* request without the ordering, each once.
C21_OrderingSortsOnly ==
    (/\ ListAnswered
     /\ Has(request.params, "ordering")
     /\ TermField(request.params["ordering"]) \in
            {Field_title, Field_publication_year, Field_author__name}
     /\ BookFilter_errors(request.params) = {}) =>
        LET term == request.params["ordering"]
            F == TermField(term)
            rows == response.results
        IN  /\ response.status = HTTP_200_OK
            /\ \A i \in 1..Len(rows) : \A j \in (i + 1)..Len(rows) :
                    IF term = F
                    THEN ~SortsBefore(rows[j], rows[i], F)
                    ELSE ~SortsBefore(rows[i], rows[j], F)
            /\ ResultSet = ListedWithout("ordering")
            /\ Len(rows) = Cardinality(ResultSet)

\* two books were returned by title descending, against the default order
\* by year
C21_Witness ==
    /\ ListOk
    /\ Has(request.params, "ordering")
    /\ request.params["ordering"] = <<"-">> \o Field_title
    /\ Len(response.results) = 2
    /\ StrLess(response.results[2].title, response.results[1].title)
    /\ response.results[1].publication_year
           < response.results[2].publication_year

\* C23: answering a book-list request, whatever its query parameters,
\* leaves every Author and Book record unchanged.
C23_ListHasNoSideEffects ==
    [][(InFlight /\ request.view = "BookListView") =>
            UNCHANGED <<authors, books>>]_vars

\* a list request with a parameter was answered with some of the stored
\* books, and all of them are still stored
C23_Witness ==
    /\ ListOk
    /\ request.params # NoParams
    /\ ResultSet # {}
    /\ ResultSet # books
    /\ Cardinality(books) = MaxShelf
    /\ authors = ShelfAuthors

\* C24: the books_count reported for an Author equals the length of the
\* nested books list reported with it and the number of stored Books whose
\* author is that Author.
C24_BooksCountIsNumberOfBooks ==
    (/\ request.view = "AuthorDetailView"
     /\ request.method = "GET"
     /\ response.status = HTTP_200_OK) =>
        /\ response.data.id = request.pk
        /\ response.data.books_count = Len(response.data.books)
        /\ response.data.books_count =
                Cardinality({b \in books : b.author = request.pk})
        /\ {response.data.books[i] : i \in 1..Len(response.data.books)}
                = {b \in books : b.author = request.pk}

\* the second author's books_count is 1: the one book that was created is
\* theirs, from its creation or since it was re-assigned
C24_Witness ==
    /\ request.view = "AuthorDetailView"
    /\ request.method = "GET"
    /\ request.pk = 2
    /\ response.status = HTTP_200_OK
    /\ response.data.books_count = 1
    /\ nextBookId = 2

\* C25: a PATCH of a stored Book leaves every field that the request does
\* not carry at its previous value, sets no field to anything but the
\* value the request carries, and leaves all other Book records unchanged.
C25_Step ==
    (/\ Answered
     /\ request.view \in {"BookUpdateView", "BookDetailUpdateDeleteView"}
     /\ request.method = "PATCH"
     /\ request.pk \in IdsOf(books)) =>
        LET old == RowByPk(books, request.pk)
            new == RowByPk(books', request.pk)
            data == request.data
        IN  /\ IdsOf(books') = IdsOf(books)
            /\ books' \ {new} = books \ {old}
            /\ new.title \in {old.title, data.title}
            /\ new.publication_year \in
                    {old.publication_year, data.publication_year}
            /\ new.author \in {old.author, data.author}
            /\ data.title = Absent => new.title = old.title
            /\ data.publication_year = AbsentNumber =>
                    new.publication_year = old.publication_year
            /\ data.author = AbsentNumber => new.author = old.author
            /\ response'.status = HTTP_200_OK =>
                    /\ data.title # Absent => new.title = data.title
                    /\ data.publication_year # AbsentNumber =>
                            new.publication_year = data.publication_year
                    /\ data.author # AbsentNumber => new.author = data.author
            /\ response'.status # HTTP_200_OK => books' = books
C25_PatchChangesOnlySentFields == [][C25_Step]_vars

\* a PATCH that carried the title alone was answered with 200: the first
\* book has the new title, its year and author are those of the fixture,
\* and the second book is as it was
C25_Witness ==
    /\ request.view = "BookUpdateView"
    /\ request.method = "PATCH"
    /\ request.pk = 1
    /\ request.data.title = <<"1", "9", "8", "4">>
    /\ request.data.publication_year = AbsentNumber
    /\ request.data.author = AbsentNumber
    /\ response.status = HTTP_200_OK
    /\ books = {[id |-> 1, title |-> <<"1", "9", "8", "4">>,
                 publication_year |-> 1997, author |-> 1]}
                \cup {b \in FixtureBooks : b.id = 2}

\* the year a legacy parameter of the request bounds the list by, if the
\* request carries it with an integer
LegacyYear(key) ==
    IF Has(request.params, key)
    THEN int(request.params[key])
    ELSE [ok |-> FALSE, value |-> 0]

\* C26: with an integer year_from=a every returned book has
\* publication_year >= a, with an integer year_to=b every returned book has
\* publication_year <= b; the books returned are exactly those of the
\* request without the two parameters that lie within the bounds given,
\* and are the same whichever bound is applied to the result of the other.
C26_LegacyYearsBoundInclusively ==
    (/\ ListAnswered
     /\ LegacyYear("year_from").ok \/ LegacyYear("year_to").ok
     /\ BookFilter_errors(request.params) = {}) =>
        LET a == LegacyYear("year_from")
            b == LegacyYear("year_to")
            neither == filter_queryset(
                           books, authors,
                           Without(Without(request.params, "year_from"),
                                   "year_to"),
                           currentYear)
            FromA(qs) == {x \in qs : a.ok => x.publication_year >= a.value}
            ToB(qs) == {x \in qs : b.ok => x.publication_year <= b.value}
        IN  /\ response.status = HTTP_200_OK
            /\ \A x \in ResultSet :
                    /\ a.ok => x.publication_year >= a.value
                    /\ b.ok => x.publication_year <= b.value
            /\ ResultSet = ToB(FromA(neither))
            /\ ResultSet = FromA(ToB(neither))
            /\ ResultSet = FromA(ListedWithout("year_from"))
            /\ ResultSet = ToB(ListedWithout("year_to"))

\* the years 2010 to 2019 were asked for with both parameters: a book of
\* the first or last of these years is returned and one of the year before
\* or after is not
C26_Witness ==
    /\ ListOk
    /\ DOMAIN request.params = YearParams
    /\ request.params["year_from"] = <<"2", "0", "1", "0">>
    /\ request.params["year_to"] = <<"2", "0", "1", "9">>
    /\ \E x \in ResultSet : x.publication_year \in {2010, 2019}
    /\ \E x \in books \ ResultSet : x.publication_year \in {2009, 2020}

\* ========================================================= missing records
\* the ids stored in the table that a view looks the id of its URL up in
StoredIds(view) ==
    CASE view \in {"like_post", "unlike_post", "PostViewSet"} ->
            PostIdsOf(posts)
      [] view = "CommentViewSet" -> PostIdsOf(comments)
      [] view = "AuthorDetailView" -> IdsOf(authors)
      [] view \in {"BookDetailView", "BookUpdateView", "BookDeleteView",
                   "BookDetailUpdateDeleteView"} -> IdsOf(books)
      [] OTHER -> {}

\* the request names an id, of no stored record
NamesMissing(r) ==
    /\ r.view \in {"like_post", "unlike_post", "PostViewSet",
                    "CommentViewSet", "AuthorDetailView", "BookDetailView",
                    "BookUpdateView", "BookDeleteView",
                    "BookDetailUpdateDeleteView"}
    /\ r.pk # NoPk
    /\ r.pk \notin StoredIds(r.view)

StoredRecords == <<posts, comments, likes, notifications, authors, books>>

\* C22 as stated: a retrieve, update, delete, like or unlike request that
\* names an id with no stored record is answered with 404 and leaves every
\* stored record unchanged.
C22_MissingIs404(r) ==
    NamesMissing(r) =>
        /\ response'.status = HTTP_404_NOT_FOUND
        /\ UNCHANGED StoredRecords
C22_MissingAlways404 ==
    [][/\ Answered => C22_MissingIs404(request)
       /\ nreq' = nreq + 1 => C22_MissingIs404(request')]_vars

\* C22, amended: such a request is answered with 404 when its sender is
\* authenticated or its method is a safe one, and is refused as not
\* authenticated otherwise; in both cases every stored record is unchanged.
C22_MissingIsRefused(r) ==
    NamesMissing(r) =>
        /\ IF r.user = Anonymous /\ r.method \notin SAFE_METHODS
           THEN response'.status \in NotAuthenticatedStatus
           ELSE response'.status = HTTP_404_NOT_FOUND
        /\ UNCHANGED StoredRecords
C22_MissingRecordNotFound ==
    [][/\ Answered => C22_MissingIsRefused(request)
       /\ nreq' = nreq + 1 => C22_MissingIsRefused(request')]_vars

\* a like of a post that is not stored was answered with 404 while another
\* post is stored, and no like and no notification was written
C22_Witness ==
    /\ request.view = "like_post"
    /\ request.user # Anonymous
    /\ request.pk \notin PostIdsOf(posts)
    /\ posts # {}
    /\ response.status = HTTP_404_NOT_FOUND
    /\ likes = <<>>
    /\ notifications = <<>>

\* ============================================ claims: comment ownership
BlogCommentViews == {"CommentUpdateView", "CommentDeleteView"}

\* the response refuses the request: a redirect to the login page or 403
Refused(r) ==
    \/ r.status = HTTP_403_FORBIDDEN
    \/ r = [status |-> HTTP_302_FOUND, errors |-> {}, location |-> "login"]

\* C27: in the blog a comment is edited or deleted only by its author: a
\* request to CommentUpdateView or CommentDeleteView that names a stored
\* comment and comes from an unauthenticated user or from a user other
\* than comment.author is refused (redirect to login, or 403) and leaves
\* the Comment table as it was; and a comment that a request changed or
\* removed is the one the request named, and the requester is its author.
C27_OnlyAuthorEditsOrDeletesComment ==
    request.view \in BlogCommentViews =>
        /\ \A c \in before.comments :
               (request.pk = c.id /\ request.user # c.author) =>
                   /\ Refused(response)
                   /\ comments = before.comments
        /\ \A c \in before.comments \ comments :
               request.pk = c.id /\ request.user = c.author

\* the author of comment 2 has edited it, and is then refused (403) when
\* posting an edit or a delete of comment 1, which stays as it was
C27_Witness ==
    /\ request.view \in BlogCommentViews
    /\ request.method = "POST"
    /\ request.user = "user2"
    /\ request.pk = 1
    /\ response.status = HTTP_403_FORBIDDEN
    /\ comments = before.comments
    /\ \E c \in comments : c.id = 1 /\ c.author = "user1"
    /\ \E c \in comments :
           c.id = 2 /\ c.author = "user2" /\ c.content = "edited"

\* =================================================== claims: likes of a post
\* C28: after any sequence of like and unlike requests, for every post P
\* and user U, P.likes_count is the number of Like records of P and
\* P.is_liked_by(U) holds exactly when a Like record of (U, P) exists.
C28_LikesCountMatchesLikeRecords ==
    \A post \in posts :
        /\ likes_count(post) =
               Cardinality({i \in 1..Len(likes) : likes[i].post = post.id})
        /\ \A user \in Users :
               is_liked_by(post, user) <=>
                   CountRows(likes, LikeRow(user, post.id)) > 0

\* ================================================ claims: repeated unlike
\* the step receives an unlike request of a user on a stored post
UnlikeArrives ==
    /\ nreq' = nreq + 1
    /\ request'.view = "unlike_post"
    /\ request'.user \in Users
    /\ request'.pk \in PostIdsOf(posts)

C29_Step ==
    UnlikeArrives =>
        /\ CountRows(likes, LikeRow(request'.user, request'.pk)) = 0 =>
               /\ response'.status = HTTP_200_OK
               /\ likes' = likes
               /\ notifications' = notifications
        /\ (UnlikeHandled /\ request' = request) =>
               /\ response'.status = HTTP_200_OK
               /\ UNCHANGED <<posts, likes, notifications, comments>>

\* C29: unlike is idempotent and does not fail on an absent like: an
\* unlike request of user U on a stored post P with no Like row of (U, P)
\* returns 200 and leaves the Like and Notification tables unchanged, and
\* an unlike that directly follows the same unlike leaves the state the
\* first one left.
C29_UnlikeIsIdempotent == [][C29_Step]_vars

\* a user who never liked the post unliked it and got 200, while the
\* like of the other user and its notification stayed
C29_Witness ==
    /\ UnlikeHandled
    /\ ~LikedBefore
    /\ response.status = HTTP_200_OK
    /\ likes = before.likes
    /\ notifications = before.notifications
    /\ \E other \in Users \ {request.user} :
           /\ CountRows(likes, LikeRow(other, request.pk)) = 1
           /\ CountNotifications(notifications, other, request.pk) = 1

\* ============================================= claims: author of a creation
\* the request answered is a create request of the social media API
CreateHandled ==
    /\ request.view \in {"PostViewSet", "CommentViewSet"}
    /\ request.method = "POST"
    /\ request.pk = 0

\* C30: every Post or Comment created through the social media API has as
\* its author the authenticated user who sent the create request, whatever
\* author the body of the request names, and a create request without
\* authentication creates nothing.
C30_AuthorIsRequester ==
    CreateHandled =>
        /\ \A p \in posts \ before.posts :
               p.author = request.user /\ request.user \in Users
        /\ \A c \in comments \ before.comments :
               c.author = request.user /\ request.user \in Users
        /\ request.user = Anonymous =>
               /\ posts = before.posts
               /\ comments = before.comments
               /\ likes = before.likes
               /\ notifications = before.notifications

\* user2 created a comment with a body naming user1 as its author, and the
\* stored comment has user2 as its author
C30_Witness ==
    /\ CreateHandled
    /\ request.view = "CommentViewSet"
    /\ request.user = "user2"
    /\ request.data.author = "user1"
    /\ response.status = HTTP_201_CREATED
    /\ \E c \in comments \ before.comments :
           c.author = "user2" /\ c.post = request.data.post

====
